---- MODULE Spec2Model ----
(***************************************************************************)
(* Hasaba: personal finance ledger (src/src/App.tsx).                      *)
(*                                                                         *)
(* The balance engine: computeBalances replays the transaction log against *)
(* the account registry; liquidezCents sums the balances of the designated *)
(* accounts.  The log is the state `txs`, the registry the state           *)
(* `accounts`; `summary` and `liquidez` are the memoised results the       *)
(* component recomputes whenever the log changes.                          *)
(*                                                                         *)
(* The component around it: `categories` is the category registry, `form`  *)
(* the state of the entry form, `alerted` the text of the dialog the last  *)
(* handler showed, `uuid` the number of ids crypto.randomUUID has handed   *)
(* out and `reading` the texts of the files a FileReader is still reading. *)
(*                                                                         *)
(* Persistence (useLocalState): `localStorage` holds the three blobs,      *)
(* `failure` says whether the store throws when it is used, and `phase`    *)
(* is where the component is: rendered once, mounted (its effects ran) or  *)
(* unmounted by an error nothing caught.                                   *)
(*                                                                         *)
(* Specifications:                                                         *)
(*   Spec          the balance engine over logs of every shape             *)
(*   SpecForm      the entry form: every select, the two effects, addTx    *)
(*   SpecLog       the log: addTx, importCSV, the delete button            *)
(*   SpecCSV       buildCSV and parseCSV on logs                           *)
(*   SpecReconcile ensureAccounts and ensureCategories on stored registries*)
(*   SpecReconcile_part000  the migrations of src/unnamed/part_000          *)
(*   SpecReports   the report views over a log of several months           *)
(*   SpecStore     a session from its start over a store that may fail      *)
(***************************************************************************)
EXTENDS Integers, Sequences, FiniteSets, TLC

VARIABLES accounts, txs, summary, liquidez, categories, form, alerted, uuid, reading,
          localStorage, failure, phase

vars == <<accounts, txs, summary, liquidez, categories, form, alerted, uuid, reading,
          localStorage, failure, phase>>

\* ------------------------------------------------------------------------
\* Bounds of the model
\* ------------------------------------------------------------------------
\* Longest transaction log explored.
MaxTxs == 2

\* ------------------------------------------------------------------------
\* Types and constants of the program
\* ------------------------------------------------------------------------
\* JavaScript null for an optional id / an absent creditAvailableCents.
NULL == "<null>"

ACCOUNT_TYPES == [CASH |-> "CASH", CREDIT |-> "CREDIT"]

defaultAccounts ==
  << [id |-> "daviplata", name |-> "Daviplata", type |-> ACCOUNT_TYPES.CASH, initialBalanceCents |-> 0],
     [id |-> "nequi", name |-> "Nequi", type |-> ACCOUNT_TYPES.CASH, initialBalanceCents |-> 0],
     [id |-> "visa", name |-> "Tarjeta Visa", type |-> ACCOUNT_TYPES.CREDIT,
      creditLimitCents |-> 300000000, initialDebtCents |-> 0],
     [id |-> "rotativo", name |-> "Credito rotativo", type |-> ACCOUNT_TYPES.CREDIT,
      creditLimitCents |-> 500000000, initialDebtCents |-> 0],
     [id |-> "empresa", name |-> "Cuenta de la empresa", type |-> ACCOUNT_TYPES.CASH, initialBalanceCents |-> 0],
     [id |-> "efectivo", name |-> "Efectivo", type |-> ACCOUNT_TYPES.CASH, initialBalanceCents |-> 0],
     [id |-> "ahorros", name |-> "Cuenta de ahorros", type |-> ACCOUNT_TYPES.CASH, initialBalanceCents |-> 0],
     [id |-> "inversion", name |-> "Inversion - Ahorro", type |-> ACCOUNT_TYPES.CASH, initialBalanceCents |-> 0] >>

\* Every Cash account of the seed registry.
liquidezIdsAllCash == <<"daviplata", "nequi", "empresa", "efectivo", "ahorros", "inversion">>

liquidezIds == <<"daviplata", "nequi", "empresa", "efectivo", "ahorros">>

\* ------------------------------------------------------------------------
\* JavaScript helpers
\* ------------------------------------------------------------------------
\* JavaScript's NaN, a value no amount in cents takes.
NaN == -2147483647

\* a.field || 0 : an absent (undefined) numeric field reads as 0.
OrZero(a, field) == IF field \in DOMAIN a THEN a[field] ELSE 0

\* m[k] || 0 on a Record<string, number>.
GetOrZero(m, k) == IF k \in DOMAIN m THEN m[k] ELSE 0

\* m[k] = v on a Record<string, number> (creates the key when missing).
Put(m, k, v) ==
  IF k \in DOMAIN m THEN [m EXCEPT ![k] = v]
  ELSE [x \in (DOMAIN m) \cup {k} |-> IF x = k THEN v ELSE m[x]]

\* accounts.find((a) => a.id === id): index of the first match, 0 if none.
findAccount(accs, id) ==
  IF \E i \in 1..Len(accs) : accs[i].id = id
  THEN CHOOSE i \in 1..Len(accs) :
         /\ accs[i].id = id
         /\ \A j \in 1..(i - 1) : accs[j].id # id
  ELSE 0

\* Object.values(m).reduce((acc, n) => acc + n, 0)
RECURSIVE SumKeys(_, _)
SumKeys(m, keys) ==
  IF keys = {} THEN 0
  ELSE LET k == CHOOSE x \in keys : TRUE
       IN m[k] + SumKeys(m, keys \ {k})

SumValues(m) == SumKeys(m, DOMAIN m)

\* ------------------------------------------------------------------------
\* computeBalances (src/src/App.tsx:145-194)
\* ------------------------------------------------------------------------
\* Every running total started at zero.
RECURSIVE seedBalancesZero(_, _)
seedBalancesZero(accs, st) ==
  IF accs = <<>> THEN st
  ELSE LET a == Head(accs)
       IN seedBalancesZero(Tail(accs),
            IF a.type = ACCOUNT_TYPES.CASH
            THEN [st EXCEPT !.ef = Put(st.ef, a.id, 0)]
            ELSE [st EXCEPT !.debt = Put(st.debt, a.id, 0)])

\* accounts.forEach: ef[a.id] for CASH, debt[a.id] for everything else.
RECURSIVE seedBalances(_, _)
seedBalances(accs, st) ==
  IF accs = <<>> THEN st
  ELSE LET a == Head(accs)
       IN seedBalances(Tail(accs),
            IF a.type = ACCOUNT_TYPES.CASH
            THEN [st EXCEPT !.ef = Put(st.ef, a.id, OrZero(a, "initialBalanceCents"))]
            ELSE [st EXCEPT !.debt = Put(st.debt, a.id, OrZero(a, "initialDebtCents"))])

\* The destination's balance replaced by the amount.
applyIngresoAssign(accs, st, t, amount) ==
  IF t.accountToId # NULL /\ t.accountToId # "" /\ t.accountToId \in DOMAIN st.ef
  THEN [st EXCEPT !.ef = Put(st.ef, t.accountToId, amount)]
  ELSE st

\* t.type === "INGRESO": only a destination that is a key of ef is credited.
applyIngreso(accs, st, t, amount) ==
  IF t.accountToId # NULL /\ t.accountToId # "" /\ t.accountToId \in DOMAIN st.ef
  THEN [st EXCEPT !.ef = Put(st.ef, t.accountToId, st.ef[t.accountToId] + amount)]
  ELSE st

\* A Cash balance floored at zero after an expense.
applyGastoFloored(accs, st, t, amount) ==
  LET f == findAccount(accs, t.accountFromId)
  IN IF f = 0 THEN st
     ELSE LET from == accs[f]
              left == GetOrZero(st.ef, from.id) - amount
          IN IF from.type = ACCOUNT_TYPES.CREDIT
             THEN [st EXCEPT !.debt = Put(st.debt, from.id, GetOrZero(st.debt, from.id) + amount)]
             ELSE [st EXCEPT !.ef = Put(st.ef, from.id, IF left < 0 THEN 0 ELSE left)]

\* t.type === "GASTO"
applyGasto(accs, st, t, amount) ==
  LET f == findAccount(accs, t.accountFromId)
  IN IF f = 0 THEN st
     ELSE LET from == accs[f]
          IN IF from.type = ACCOUNT_TYPES.CREDIT
             THEN [st EXCEPT !.debt = Put(st.debt, from.id, GetOrZero(st.debt, from.id) + amount)]
             ELSE [st EXCEPT !.ef = Put(st.ef, from.id, GetOrZero(st.ef, from.id) - amount)]

\* The Cash branch without the credit to the destination.
applyTransferenciaNoCredit(accs, st, t, amount) ==
  LET f == findAccount(accs, t.accountFromId)
      g == findAccount(accs, t.accountToId)
  IN IF f = 0 \/ g = 0 THEN st
     ELSE LET from == accs[f]
              to == accs[g]
          IN IF from.id = to.id THEN st
             ELSE IF to.type = ACCOUNT_TYPES.CREDIT
             THEN LET paid == [st EXCEPT !.debt = Put(st.debt, to.id, GetOrZero(st.debt, to.id) - amount)]
                  IN IF from.type = ACCOUNT_TYPES.CASH
                     THEN [paid EXCEPT !.ef = Put(paid.ef, from.id, GetOrZero(paid.ef, from.id) - amount)]
                     ELSE paid
             ELSE IF from.type = ACCOUNT_TYPES.CASH /\ to.type = ACCOUNT_TYPES.CASH
             THEN [st EXCEPT !.ef = Put(st.ef, from.id, GetOrZero(st.ef, from.id) - amount)]
             ELSE st

\* A payment to a Credit destination taken only from a Cash source.
applyTransferenciaCashOnly(accs, st, t, amount) ==
  LET f == findAccount(accs, t.accountFromId)
      g == findAccount(accs, t.accountToId)
  IN IF f = 0 \/ g = 0 THEN st
     ELSE LET from == accs[f]
              to == accs[g]
          IN IF from.id = to.id \/ from.type # ACCOUNT_TYPES.CASH THEN st
             ELSE IF to.type = ACCOUNT_TYPES.CREDIT
             THEN LET paid == [st EXCEPT !.debt = Put(st.debt, to.id, GetOrZero(st.debt, to.id) - amount)]
                  IN [paid EXCEPT !.ef = Put(paid.ef, from.id, GetOrZero(paid.ef, from.id) - amount)]
             ELSE LET out == [st EXCEPT !.ef = Put(st.ef, from.id, GetOrZero(st.ef, from.id) - amount)]
                  IN [out EXCEPT !.ef = Put(out.ef, to.id, GetOrZero(out.ef, to.id) + amount)]

\* Without the source-equals-destination test.
applyTransferenciaSelf(accs, st, t, amount) ==
  LET f == findAccount(accs, t.accountFromId)
      g == findAccount(accs, t.accountToId)
  IN IF f = 0 \/ g = 0 THEN st
     ELSE LET from == accs[f]
              to == accs[g]
          IN IF to.type = ACCOUNT_TYPES.CREDIT
             THEN LET paid == [st EXCEPT !.debt = Put(st.debt, to.id, GetOrZero(st.debt, to.id) - amount)]
                  IN IF from.type = ACCOUNT_TYPES.CASH
                     THEN [paid EXCEPT !.ef = Put(paid.ef, from.id, GetOrZero(paid.ef, from.id) - amount)]
                     ELSE paid
             ELSE IF from.type = ACCOUNT_TYPES.CASH /\ to.type = ACCOUNT_TYPES.CASH
             THEN LET out == [st EXCEPT !.ef = Put(st.ef, from.id, GetOrZero(st.ef, from.id) - amount)]
                  IN [out EXCEPT !.ef = Put(out.ef, to.id, GetOrZero(out.ef, to.id) + amount)]
             ELSE st

\* A payment to a Credit destination that never debits the source.
applyTransferenciaNoDebit(accs, st, t, amount) ==
  LET f == findAccount(accs, t.accountFromId)
      g == findAccount(accs, t.accountToId)
  IN IF f = 0 \/ g = 0 THEN st
     ELSE LET from == accs[f]
              to == accs[g]
          IN IF from.id = to.id THEN st
             ELSE IF to.type = ACCOUNT_TYPES.CREDIT
             THEN [st EXCEPT !.debt = Put(st.debt, to.id, GetOrZero(st.debt, to.id) - amount)]
             ELSE IF from.type = ACCOUNT_TYPES.CASH /\ to.type = ACCOUNT_TYPES.CASH
             THEN LET out == [st EXCEPT !.ef = Put(st.ef, from.id, GetOrZero(st.ef, from.id) - amount)]
                  IN [out EXCEPT !.ef = Put(out.ef, to.id, GetOrZero(out.ef, to.id) + amount)]
             ELSE st

\* t.type === "TRANSFERENCIA"
applyTransferencia(accs, st, t, amount) ==
  LET f == findAccount(accs, t.accountFromId)
      g == findAccount(accs, t.accountToId)
  IN IF f = 0 \/ g = 0 THEN st
     ELSE LET from == accs[f]
              to == accs[g]
          IN IF from.id = to.id THEN st
             ELSE IF to.type = ACCOUNT_TYPES.CREDIT
             THEN LET paid == [st EXCEPT !.debt = Put(st.debt, to.id, GetOrZero(st.debt, to.id) - amount)]
                  IN IF from.type = ACCOUNT_TYPES.CASH
                     THEN [paid EXCEPT !.ef = Put(paid.ef, from.id, GetOrZero(paid.ef, from.id) - amount)]
                     ELSE paid
             ELSE IF from.type = ACCOUNT_TYPES.CASH /\ to.type = ACCOUNT_TYPES.CASH
             THEN LET out == [st EXCEPT !.ef = Put(st.ef, from.id, GetOrZero(st.ef, from.id) - amount)]
                  IN [out EXCEPT !.ef = Put(out.ef, to.id, GetOrZero(out.ef, to.id) + amount)]
             ELSE st

\* One iteration of the loop over txs: amount = Number(t.amountCents || 0)
\* (NaN is falsy and reads as 0), a zero amount is skipped, then the branch
\* of the transaction's type.
applyTx(accs, st, t) ==
  LET amount == IF t.amountCents = NaN THEN 0 ELSE t.amountCents
  IN IF amount = 0 THEN st
     ELSE IF t.type = "INGRESO" THEN applyIngreso(accs, st, t, amount)
     ELSE IF t.type = "GASTO" THEN applyGasto(accs, st, t, amount)
     ELSE IF t.type = "TRANSFERENCIA" THEN applyTransferencia(accs, st, t, amount)
     ELSE st

\* for (const t of txs || []) ...
RECURSIVE foldTxs(_, _, _)
foldTxs(accs, st, log) ==
  IF log = <<>> THEN st
  ELSE foldTxs(accs, applyTx(accs, st, Head(log)), Tail(log))

\* Available credit floored at zero.
perAccountFloored(accs, st) ==
  [i \in 1..Len(accs) |->
     LET a == accs[i]
     IN IF a.type = ACCOUNT_TYPES.CREDIT
        THEN LET d == GetOrZero(st.debt, a.id)
                 disp == OrZero(a, "creditLimitCents") - d
             IN [account |-> a, balanceCents |-> 0 - d,
                 creditAvailableCents |-> IF disp < 0 THEN 0 ELSE disp]
        ELSE [account |-> a, balanceCents |-> GetOrZero(st.ef, a.id), creditAvailableCents |-> NULL]]

\* accounts.map((a) => ...): the per-account result.
perAccount(accs, st) ==
  [i \in 1..Len(accs) |->
     LET a == accs[i]
     IN IF a.type = ACCOUNT_TYPES.CREDIT
        THEN LET d == GetOrZero(st.debt, a.id)
                 disp == OrZero(a, "creditLimitCents") - d
             IN [account |-> a, balanceCents |-> 0 - d, creditAvailableCents |-> disp]
        ELSE [account |-> a, balanceCents |-> GetOrZero(st.ef, a.id), creditAvailableCents |-> NULL]]

\* creditoDisponibleTotal: running sum of disp over the CREDIT accounts.
RECURSIVE creditoDisponibleTotal(_)
creditoDisponibleTotal(per) ==
  IF per = <<>> THEN 0
  ELSE (IF Head(per).account.type = ACCOUNT_TYPES.CREDIT
        THEN Head(per).creditAvailableCents ELSE 0)
       + creditoDisponibleTotal(Tail(per))

computeBalances(accs, log) ==
  LET st == foldTxs(accs, seedBalances(accs, [ef |-> <<>>, debt |-> <<>>]), log)
      per == perAccount(accs, st)
  IN [accounts |-> per,
      efectivoTotal |-> SumValues(st.ef),
      creditoDisponibleTotal |-> creditoDisponibleTotal(per)]

\* liquidezCents (src/src/App.tsx:333-342): sum of balanceCents of the
\* designated ids found in the summary.
RECURSIVE liquidezLoop(_, _)
liquidezLoop(ids, per) ==
  IF ids = <<>> THEN 0
  ELSE LET hits == {i \in 1..Len(per) : per[i].account.id = Head(ids)}
       IN (IF hits = {} THEN 0
           ELSE per[CHOOSE i \in hits : \A j \in hits : i <= j].balanceCents)
          + liquidezLoop(Tail(ids), per)

liquidezCents(sum) == liquidezLoop(liquidezIds, sum.accounts)

\* ------------------------------------------------------------------------
\* computeBalances of the other App version (src/unnamed/part_000:102-151).
\* Its GASTO and TRANSFERENCIA branches are the code of applyGasto and
\* applyTransferencia; the INGRESO branch, the missing zero-amount skip and
\* the liquidity total computed inside the function differ.
\* ------------------------------------------------------------------------
\* t.type === 'INGRESO': credits a cash destination, pays a credit one.
applyIngreso_part000(accs, st, t, amount) ==
  LET truthy == t.accountToId # NULL /\ t.accountToId # ""
      c == IF truthy /\ t.accountToId \in DOMAIN st.ef
           THEN [st EXCEPT !.ef = Put(st.ef, t.accountToId, st.ef[t.accountToId] + amount)]
           ELSE st
  IN IF truthy /\ t.accountToId \in DOMAIN c.debt
     THEN [c EXCEPT !.debt = Put(c.debt, t.accountToId, c.debt[t.accountToId] - amount)]
     ELSE c

applyTx_part000(accs, st, t) ==
  IF t.type = "INGRESO" THEN applyIngreso_part000(accs, st, t, t.amountCents)
  ELSE IF t.type = "GASTO" THEN applyGasto(accs, st, t, t.amountCents)
  ELSE IF t.type = "TRANSFERENCIA" THEN applyTransferencia(accs, st, t, t.amountCents)
  ELSE st

RECURSIVE foldTxs_part000(_, _, _)
foldTxs_part000(accs, st, log) ==
  IF log = <<>> THEN st
  ELSE foldTxs_part000(accs, applyTx_part000(accs, st, Head(log)), Tail(log))

\* ['daviplata',...].map(id => cash[id] || 0).reduce((a,b) => a + b, 0)
RECURSIVE liquidez_part000(_, _)
liquidez_part000(ids, cash) ==
  IF ids = <<>> THEN 0
  ELSE GetOrZero(cash, Head(ids)) + liquidez_part000(Tail(ids), cash)

computeBalances_part000(accs, log) ==
  LET st == foldTxs_part000(accs, seedBalances(accs, [ef |-> <<>>, debt |-> <<>>]), log)
  IN [accounts |-> perAccount(accs, st),
      liquidez |-> liquidez_part000(liquidezIds, st.ef)]

\* ------------------------------------------------------------------------
\* The component: constants (src/src/App.tsx:46-83)
\* ------------------------------------------------------------------------
\* The payment methods a saved Expense can carry, each with the display name
\* of the account it draws on.
PAYMENT_METHODS ==
  << [id |-> "VISA", accountName |-> "Tarjeta Visa"],
     [id |-> "DEBITO_AHORROS", accountName |-> "Cuenta de ahorros"],
     [id |-> "NEQUI", accountName |-> "Nequi"],
     [id |-> "DAVIPLATA", accountName |-> "Daviplata"],
     [id |-> "CUENTA_AHORROS", accountName |-> "Cuenta de ahorros"],
     [id |-> "EFECTIVO", accountName |-> "Efectivo"] >>

defaultCategories ==
  << [id |-> "vivienda_servicios", name |-> "Vivienda - Servicios", kind |-> "GASTO"],
     [id |-> "mercado", name |-> "Mercado", kind |-> "GASTO"],
     [id |-> "restaurantes_ocio", name |-> "Restaurantes - Ocio", kind |-> "GASTO"],
     [id |-> "transporte", name |-> "Transporte", kind |-> "GASTO"],
     [id |-> "salud_bienestar", name |-> "Salud - bienestar", kind |-> "GASTO"],
     [id |-> "mascota", name |-> "Mascota", kind |-> "GASTO"],
     [id |-> "aseo_hogar", name |-> "Aseo - hogar", kind |-> "GASTO"],
     [id |-> "suscripciones", name |-> "Suscripciones", kind |-> "GASTO"],
     [id |-> "trabajos", name |-> "Trabajos", kind |-> "INGRESO"],
     [id |-> "ventas_reembolsos", name |-> "Ventas - reembolsos", kind |-> "INGRESO"],
     [id |-> "rendimientos", name |-> "Rendimientos", kind |-> "INGRESO"] >>

\* ------------------------------------------------------------------------
\* Text and numbers
\* ------------------------------------------------------------------------
\* A text the program scans (the amount typed in the form, a note, a CSV
\* file, a cell of a row) is a sequence of pieces: a piece is one character
\* where the program looks at characters (digits, sign, point, comma, line
\* feed, carriage return) and otherwise a run of characters it copies
\* whole.  The empty text is <<>>.  An id, a type or a date held in a record
\* field is a string, "" when empty.
Digits == {"0", "1", "2", "3", "4", "5", "6", "7", "8", "9"}

DigitValue(c) ==
  CASE c = "0" -> 0 [] c = "1" -> 1 [] c = "2" -> 2 [] c = "3" -> 3 [] c = "4" -> 4
    [] c = "5" -> 5 [] c = "6" -> 6 [] c = "7" -> 7 [] c = "8" -> 8 [] c = "9" -> 9

\* The longest prefix of s made of digits.
RECURSIVE TakeDigits(_)
TakeDigits(s) ==
  IF s # <<>> /\ Head(s) \in Digits THEN <<Head(s)>> \o TakeDigits(Tail(s)) ELSE <<>>

\* The value of a run of digits; 0 for the empty run.
RECURSIVE DigitsValue(_)
DigitsValue(ds) ==
  IF ds = <<>> THEN 0
  ELSE 10 * DigitsValue(SubSeq(ds, 1, Len(ds) - 1)) + DigitValue(ds[Len(ds)])

\* The pieces of s that satisfy keep, with each "," turned into ".":
\* .replace(/[^0-9.,-]/g, "").replace(/,/g, ".")
RECURSIVE SanitizeAmount(_)
SanitizeAmount(s) ==
  IF s = <<>> THEN <<>>
  ELSE LET c == Head(s)
       IN (IF c \in Digits \cup {".", "-"} THEN <<c>>
           ELSE IF c = "," THEN <<".">>
           ELSE <<>>) \o SanitizeAmount(Tail(s))

\* parseFloat(s) * 1000 for a sanitized text: an optional "-", digits, an
\* optional "." and digits, anything after that ignored; NaN when there is
\* no digit.  Decimals past the third are dropped.
parseFloatMilli(s) ==
  LET neg == s # <<>> /\ Head(s) = "-"
      body == IF neg THEN Tail(s) ELSE s
      int == TakeDigits(body)
      rest == SubSeq(body, Len(int) + 1, Len(body))
      frac == IF rest # <<>> /\ Head(rest) = "." THEN TakeDigits(Tail(rest)) ELSE <<>>
      f3 == SubSeq(frac \o <<"0", "0", "0">>, 1, 3)
      milli == 1000 * DigitsValue(int) + DigitsValue(f3)
  IN IF int = <<>> /\ frac = <<>> THEN NaN
     ELSE IF neg THEN 0 - milli ELSE milli

\* Math.round(v * 100), v given in thousandths: the nearest integer, a half
\* rounding up.
roundCents(milli) == (milli + 5) \div 10

\* toCents taking the absolute value of what was typed.
toCentsAbs(str) ==
  IF str = <<>> THEN 0
  ELSE LET v == parseFloatMilli(SanitizeAmount(str))
       IN IF v = NaN THEN 0 ELSE roundCents(IF v < 0 THEN 0 - v ELSE v)

\* toCents (src/src/App.tsx:24-30).
toCents(str) ==
  IF str = <<>> THEN 0
  ELSE LET v == parseFloatMilli(SanitizeAmount(str))
       IN IF v = NaN THEN 0 ELSE roundCents(v)

\* todayStr(): the date of the session.
todayStr == "2024-03-15"

\* The form as useState creates it (src/src/App.tsx:295-304).
formInitial ==
  [type |-> "TRANSFERENCIA", date |-> todayStr, amount |-> <<"0">>,
   accountFromId |-> "visa", accountToId |-> "ahorros", paymentMethod |-> "VISA",
   categoryId |-> NULL, note |-> <<>>]

\* ------------------------------------------------------------------------
\* Registry reconciliation (src/src/App.tsx:105-128)
\* ------------------------------------------------------------------------
idsOf(list) == {list[i].id : i \in 1..Len(list)}

\* byId.set(a.id, a) on a Map kept in insertion order: a key already there
\* keeps its place and takes the new value.
MapSet(m, a) ==
  IF a.id \in idsOf(m)
  THEN [i \in 1..Len(m) |-> IF m[i].id = a.id THEN a ELSE m[i]]
  ELSE Append(m, a)

\* new Map(current.map((a) => [a.id, a]))
RECURSIVE MapOf(_, _)
MapOf(m, list) ==
  IF list = <<>> THEN m ELSE MapOf(MapSet(m, Head(list)), Tail(list))

\* ensureAccounts setting every seed, also over a stored account of its id.
ensureAccountsSeedsWin(current) ==
  LET byId == MapOf(<<>>, current)
      list == MapOf(byId, defaultAccounts)
  IN IF list # current THEN list ELSE current

ensureAccounts(current) ==
  LET byId == MapOf(<<>>, current)
      missing == SelectSeq(defaultAccounts, LAMBDA a : a.id \notin idsOf(byId))
      changed == missing # <<>>
      list == byId \o missing
  IN IF changed THEN list ELSE current

\* ensureCategories looking the seeds' names up among the ids it has.
ensureCategoriesByName(current) ==
  LET have == idsOf(current)
      missing == SelectSeq(defaultCategories, LAMBDA c : c.name \notin have)
      changed == missing # <<>>
  IN IF changed THEN current \o missing ELSE current

ensureCategories(current) ==
  LET have == idsOf(current)
      missing == SelectSeq(defaultCategories, LAMBDA c : c.id \notin have)
      changed == missing # <<>>
  IN IF changed THEN current \o missing ELSE current

\* ------------------------------------------------------------------------
\* The entry form (src/src/App.tsx:294-325)
\* ------------------------------------------------------------------------
Min(S) == CHOOSE i \in S : \A j \in S : i <= j

\* a.name.includes(pm.accountName).  Among the display names explored none
\* properly contains an account name of PAYMENT_METHODS, so a name contains
\* one exactly when it is that name.
includes(name, part) == name = part

\* The effect on form.paymentMethod, form.type and accounts
\* (src/src/App.tsx:307-313): an Expense draws on the first account named
\* after its payment method.
paymentMethodEffect(accs, f) ==
  IF f.type # "GASTO" THEN f
  ELSE LET pms == {i \in 1..Len(PAYMENT_METHODS) : PAYMENT_METHODS[i].id = f.paymentMethod}
       IN IF pms = {} THEN f
          ELSE LET pm == PAYMENT_METHODS[Min(pms)]
                   hits == {i \in 1..Len(accs) : includes(accs[i].name, pm.accountName)}
               IN IF hits # {} /\ f.accountFromId # accs[Min(hits)].id
                  THEN [f EXCEPT !.accountFromId = accs[Min(hits)].id]
                  ELSE f

\* The categories the form's type may carry (src/src/App.tsx:320, 580).
allowed(cats, type) ==
  SelectSeq(cats, LAMBDA c : \/ (type = "GASTO" /\ c.kind = "GASTO")
                          \/ (type = "INGRESO" /\ c.kind = "INGRESO"))

\* The effect clearing the category of a Transfer and nothing else.
categoryEffectTransferOnly(cats, f) ==
  IF f.type = "TRANSFERENCIA" /\ f.categoryId # NULL /\ f.categoryId # ""
  THEN [f EXCEPT !.categoryId = NULL]
  ELSE f

\* The effect on form.type and categories (src/src/App.tsx:315-325).
categoryEffect(cats, f) ==
  IF f.type = "TRANSFERENCIA"
  THEN IF f.categoryId # NULL /\ f.categoryId # "" THEN [f EXCEPT !.categoryId = NULL] ELSE f
  ELSE LET ok == allowed(cats, f.type)
       IN IF f.categoryId \in idsOf(ok) THEN f
          ELSE [f EXCEPT !.categoryId = IF ok # <<>> /\ ok[1].id # "" THEN ok[1].id ELSE NULL]

\* The effects with the payment-method effect depending on
\* form.paymentMethod alone.
afterEffectsOnPaymentMethod(accs, cats, prev, f) ==
  LET f1 == IF prev.paymentMethod # f.paymentMethod
            THEN paymentMethodEffect(accs, f) ELSE f
  IN IF prev.type # f.type THEN categoryEffect(cats, f1) ELSE f1

\* The render after setForm and the effects whose dependencies changed;
\* accounts and categories are the same arrays from one render to the next.
\* Each effect reads the form of that render and sets a field the other
\* does not read.
afterEffects(accs, cats, prev, f) ==
  LET f1 == IF prev.paymentMethod # f.paymentMethod \/ prev.type # f.type
            THEN paymentMethodEffect(accs, f) ELSE f
  IN IF prev.type # f.type THEN categoryEffect(cats, f1) ELSE f1

\* Whether the control of field k is enabled and offers v
\* (src/src/App.tsx:513-598).
offers(k, v) ==
  CASE k = "type" -> v \in {"INGRESO", "GASTO", "TRANSFERENCIA"}
    [] k = "paymentMethod" -> form.type = "GASTO" /\ v \in idsOf(PAYMENT_METHODS)
    [] k = "accountFromId" -> form.type = "TRANSFERENCIA" /\ v \in idsOf(accounts)
    [] k = "accountToId" -> form.type # "GASTO" /\ v \in idsOf(accounts)
    [] k = "categoryId" -> form.type # "TRANSFERENCIA" /\ v \in idsOf(allowed(categories, form.type))
    [] k \in {"date", "amount", "note"} -> TRUE

\* onChange(k, v) = setForm((f) => ({ ...f, [k]: v })), from a control of
\* the form.
onChange(k, v) ==
  /\ offers(k, v)
  /\ form' = afterEffects(accounts, categories, form, [form EXCEPT ![k] = v])
  /\ alerted' = NULL
  /\ UNCHANGED <<accounts, txs, summary, liquidez, categories, uuid, reading,
                 localStorage, failure, phase>>

\* A generator that repeats itself.
randomUUIDRepeating(n) == "uuid-" \o ToString(n % 2)

\* crypto.randomUUID(): the n-th id handed out, unlike every other.
randomUUID(n) == "uuid-" \o ToString(n)

\* JavaScript null in a field that otherwise holds a text (a note).
NULLTEXT == <<NULL>>

\* String.prototype.trim on a text whose blanks are pieces " ".
RECURSIVE trimStart(_)
trimStart(s) == IF s # <<>> /\ Head(s) = " " THEN trimStart(Tail(s)) ELSE s

RECURSIVE trimEnd(_)
trimEnd(s) == IF s # <<>> /\ s[Len(s)] = " " THEN trimEnd(SubSeq(s, 1, Len(s) - 1)) ELSE s

trim(s) == trimEnd(trimStart(s))

\* The transaction addTx builds from the form (src/src/App.tsx:351-366);
\* createdAt and updatedAt, which nothing reads, are left out.
txOfForm(f, amountCents, id) ==
  LET note == IF trim(f.note) = <<>> THEN NULLTEXT ELSE trim(f.note)
      base == [id |-> id, amountCents |-> amountCents, date |-> f.date, note |-> note,
               categoryId |-> NULL, paymentMethod |-> NULL,
               accountFromId |-> NULL, accountToId |-> NULL, type |-> NULL]
  IN IF f.type = "INGRESO"
     THEN [base EXCEPT !.type = "INGRESO", !.accountToId = f.accountToId, !.categoryId = f.categoryId]
     ELSE IF f.type = "GASTO"
     THEN [base EXCEPT !.type = "GASTO", !.accountFromId = f.accountFromId,
                       !.categoryId = f.categoryId, !.paymentMethod = f.paymentMethod]
     ELSE [base EXCEPT !.type = "TRANSFERENCIA", !.accountFromId = f.accountFromId,
                       !.accountToId = f.accountToId]

\* ------------------------------------------------------------------------
\* Storage hook (src/src/App.tsx:84-103)
\* ------------------------------------------------------------------------
LS_KEYS == [ACCOUNTS |-> "ga_accounts", CATEGORIES |-> "ga_categories", TXS |-> "ga_transactions"]

\* What JSON writes for a number that is none: null.
JSONnull == -2147483646

\* JSON.stringify of a collection: a blob that holds every record whole,
\* with null for an amount that is NaN.  A blob is a tuple of one image;
\* the empty tuple stands for a key the store does not have.
JSONstringify(value) ==
  << [i \in 1..Len(value) |->
        IF "amountCents" \in DOMAIN value[i] /\ value[i].amountCents = NaN
        THEN [value[i] EXCEPT !.amountCents = JSONnull]
        ELSE value[i]] >>

\* JSON.parse of a blob.
JSONparse(raw) == raw[1]

\* How the store fails: not at all, on every write (quota exceeded), or on
\* every use (unavailable).
Failures == {"none", "quota", "unavailable"}

\* The initializer of useLocalState: the parsed blob of the key, initial
\* when the key is absent or the read throws.
getItemOr(store, fails, key, initial) ==
  IF fails = "unavailable" \/ store[key] = <<>> THEN initial ELSE JSONparse(store[key])

\* The effect of useLocalState: setItem inside try, a throw is dropped.
setItem(store, fails, key, value) ==
  IF fails # "none" THEN store ELSE [store EXCEPT ![key] = JSONstringify(value)]

\* The store after the effects of a session's first renders wrote the
\* three collections.
written(a, c, t) ==
  [ga_accounts |-> JSONstringify(a), ga_categories |-> JSONstringify(c),
   ga_transactions |-> JSONstringify(t)]

\* A mounted component over a store that works and holds what it wrote.
mounted ==
  /\ localStorage = written(accounts, categories, txs)
  /\ failure = "none"
  /\ phase = "mounted"

\* The render after setTxs: the memoised summary and liquidity, and the
\* effect of useLocalState for the log.
rendered ==
  /\ summary' = computeBalances(accounts, txs')
  /\ liquidez' = liquidezCents(summary')
  /\ localStorage' = setItem(localStorage, failure, LS_KEYS.TXS, txs')
  /\ UNCHANGED <<failure, phase>>

\* addTx without the check of the amount.
addTxUnchecked ==
  /\ txs' = <<txOfForm(form, toCents(form.amount), randomUUID(uuid + 1))>> \o txs
  /\ uuid' = uuid + 1
  /\ form' = [form EXCEPT !.amount = <<"0">>, !.note = <<>>]
  /\ alerted' = NULL
  /\ rendered
  /\ UNCHANGED <<accounts, categories, reading>>

\* addTx (src/src/App.tsx:345-369).
addTx ==
  LET amountCents == toCents(form.amount)
  IN IF amountCents <= 0
     THEN /\ alerted' = "Monto invalido"
          /\ UNCHANGED <<accounts, txs, summary, liquidez, categories, form, uuid, reading,
                         localStorage, failure, phase>>
     ELSE /\ txs' = <<txOfForm(form, amountCents, randomUUID(uuid + 1))>> \o txs
          /\ uuid' = uuid + 1
          /\ form' = [form EXCEPT !.amount = <<"0">>, !.note = <<>>]
          /\ alerted' = NULL
          /\ rendered
          /\ UNCHANGED <<accounts, categories, reading>>

\* prev.filter((x) => x.id === id): the rows of id kept instead of removed.
remainingKept(prev, id) == SelectSeq(prev, LAMBDA x : x.id = id)

\* (prev || []).filter((x) => x.id !== t.id)
remaining(prev, id) == SelectSeq(prev, LAMBDA x : x.id # id)

\* The Borrar button of the row of id (src/src/App.tsx:705).
deleteTx(id) ==
  /\ id \in idsOf(txs)
  /\ txs' = remaining(txs, id)
  /\ alerted' = NULL
  /\ rendered
  /\ UNCHANGED <<accounts, categories, form, uuid, reading>>

\* ------------------------------------------------------------------------
\* CSV (src/src/App.tsx:201-239)
\* ------------------------------------------------------------------------
\* A string field as a text: one piece, none when the string is empty.
textOf(str) == IF str = "" THEN <<>> ELSE <<str>>

\* A text as a string field: its pieces run together.
RECURSIVE stringOf(_)
stringOf(s) == IF s = <<>> THEN "" ELSE Head(s) \o stringOf(Tail(s))

DigitChar(d) == <<"0", "1", "2", "3", "4", "5", "6", "7", "8", "9">>[d + 1]

RECURSIVE digitsOf(_)
digitsOf(n) == IF n < 10 THEN <<DigitChar(n)>> ELSE digitsOf(n \div 10) \o <<DigitChar(n % 10)>>

\* String(n), as Array.prototype.join writes a number.
numberToText(n) ==
  IF n = NaN THEN <<"NaN">>
  ELSE IF n < 0 THEN <<"-">> \o digitsOf(0 - n)
  ELSE digitsOf(n)

\* Number(s) for a text s that is not empty: blanks around it dropped, then
\* an optional sign and digits, with an optional point and zeros, give the
\* integer; a text with anything else gives NaN.  (A nonzero fraction gives
\* a number that is not an integer: no row explored has one.)
textToNumber(s) ==
  LET t == trim(s)
      signed == t # <<>> /\ Head(t) \in {"-", "+"}
      body == IF signed THEN Tail(t) ELSE t
      int == TakeDigits(body)
      rest == SubSeq(body, Len(int) + 1, Len(body))
      zeros == rest = <<>> \/ (Head(rest) = "." /\ \A i \in 2..Len(rest) : rest[i] = "0")
  IN IF t = <<>> THEN 0
     ELSE IF int = <<>> \/ ~zeros THEN NaN
     ELSE IF Head(t) = "-" THEN 0 - DigitsValue(int)
     ELSE DigitsValue(int)

\* Array.prototype.join of texts.
RECURSIVE join(_, _)
join(texts, sep) ==
  IF texts = <<>> THEN <<>>
  ELSE IF Len(texts) = 1 THEN texts[1]
  ELSE texts[1] \o <<sep>> \o join(Tail(texts), sep)

\* String.prototype.split on a one-character separator: always at least
\* one text.
RECURSIVE split(_, _)
split(s, sep) ==
  IF \A i \in 1..Len(s) : s[i] # sep THEN <<s>>
  ELSE LET k == Min({i \in 1..Len(s) : s[i] = sep})
       IN <<SubSeq(s, 1, k - 1)>> \o split(SubSeq(s, k + 1, Len(s)), sep)

\* .replace(/,/g, ";") and .replace(/\r/g, "").
replaceAll(s, c, by) == [i \in 1..Len(s) |-> IF s[i] = c THEN by ELSE s[i]]

removeAll(s, c) == SelectSeq(s, LAMBDA x : x # c)

\* x || "" for a nullable string field.
orEmpty(x) == IF x = NULL THEN "" ELSE x

header ==
  join(<< <<"id">>, <<"type">>, <<"date">>, <<"amountCents">>, <<"accountFromId">>,
          <<"accountToId">>, <<"categoryId">>, <<"paymentMethod">>, <<"note">> >>, ",")

\* One row of buildCSV.
rowOf(t) ==
  join(<< textOf(t.id), textOf(t.type), textOf(t.date), numberToText(t.amountCents),
          textOf(orEmpty(t.accountFromId)), textOf(orEmpty(t.accountToId)),
          textOf(orEmpty(t.categoryId)), textOf(orEmpty(t.paymentMethod)),
          replaceAll(IF t.note = NULLTEXT THEN <<>> ELSE t.note, ",", ";") >>, ",")

buildCSV(log) == join(<<header>> \o [i \in 1..Len(log) |-> rowOf(log[i])], "\n")

\* The i-th cell of a split line; the empty text when the line is shorter
\* (undefined, falsy like "").
cell(cols, i) == IF i <= Len(cols) THEN cols[i] ELSE <<>>

\* x || null for a cell.
orNull(c) == IF c = <<>> THEN NULL ELSE stringOf(c)

\* The record parseCSV makes of a line; fresh is the id randomUUID hands
\* out if the line has none.
txOfLine(line, fresh) ==
  LET cols == split(line, ",")
  IN [id |-> IF cell(cols, 1) = <<>> THEN fresh ELSE stringOf(cell(cols, 1)),
      type |-> IF cell(cols, 2) = <<>> THEN "GASTO" ELSE stringOf(cell(cols, 2)),
      date |-> IF cell(cols, 3) = <<>> THEN todayStr ELSE stringOf(cell(cols, 3)),
      amountCents |-> IF cell(cols, 4) = <<>> THEN 0 ELSE textToNumber(cell(cols, 4)),
      accountFromId |-> orNull(cell(cols, 5)),
      accountToId |-> orNull(cell(cols, 6)),
      categoryId |-> orNull(cell(cols, 7)),
      paymentMethod |-> orNull(cell(cols, 8)),
      note |-> IF cell(cols, 9) = <<>> THEN NULLTEXT ELSE cell(cols, 9)]

\* The lines parseCSV maps: the text without "\r", split at "\n", empty
\* lines dropped, the first line (the header) dropped.
dataLines(text) ==
  LET lines == SelectSeq(split(removeAll(text, "\r"), "\n"), LAMBDA l : l # <<>>)
  IN IF Len(lines) <= 1 THEN <<>> ELSE Tail(lines)

\* How many of the first k lines have no id.
RECURSIVE idless(_, _)
idless(lines, k) ==
  IF k = 0 THEN 0
  ELSE idless(lines, k - 1) + (IF cell(split(lines[k], ","), 1) = <<>> THEN 1 ELSE 0)

\* parseCSV(text), randomUUID having handed out n ids so far.
parseCSV(text, n) ==
  LET lines == dataLines(text)
  IN [i \in 1..Len(lines) |-> txOfLine(lines[i], randomUUID(n + idless(lines, i)))]

\* importCSV(file) (src/src/App.tsx:382-386): a FileReader starts reading
\* the file; text is what it will hand to onload.
importCSV(text) ==
  /\ reading' = Append(reading, text)
  /\ alerted' = NULL
  /\ UNCHANGED <<accounts, txs, summary, liquidez, categories, form, uuid,
                 localStorage, failure, phase>>

\* reader.onload setting the log to the parsed records alone:
\* setTxs(parseCSV(text)).
onloadReplace(i) ==
  /\ i \in 1..Len(reading)
  /\ LET rows == parseCSV(reading[i], uuid)
     IN /\ txs' = rows
        /\ uuid' = uuid + idless(dataLines(reading[i]), Len(rows))
  /\ reading' = SubSeq(reading, 1, i - 1) \o SubSeq(reading, i + 1, Len(reading))
  /\ alerted' = NULL
  /\ rendered
  /\ UNCHANGED <<accounts, categories, form>>

\* reader.onload putting the parsed records after the log instead of
\* before it.
onloadAppend(i) ==
  /\ i \in 1..Len(reading)
  /\ LET rows == parseCSV(reading[i], uuid)
     IN /\ txs' = txs \o rows
        /\ uuid' = uuid + idless(dataLines(reading[i]), Len(rows))
  /\ reading' = SubSeq(reading, 1, i - 1) \o SubSeq(reading, i + 1, Len(reading))
  /\ alerted' = NULL
  /\ rendered
  /\ UNCHANGED <<accounts, categories, form>>

\* reader.onload of the i-th read in flight (src/src/App.tsx:384):
\* setTxs((prev) => [...parseCSV(text), ...prev]).
onload(i) ==
  /\ i \in 1..Len(reading)
  /\ LET rows == parseCSV(reading[i], uuid)
     IN /\ txs' = rows \o txs
        /\ uuid' = uuid + idless(dataLines(reading[i]), Len(rows))
  /\ reading' = SubSeq(reading, 1, i - 1) \o SubSeq(reading, i + 1, Len(reading))
  /\ alerted' = NULL
  /\ rendered
  /\ UNCHANGED <<accounts, categories, form>>

\* ------------------------------------------------------------------------
\* Reports (src/src/App.tsx:196-199, 400-430)
\* ------------------------------------------------------------------------
\* a + b on JavaScript numbers.
jsAdd(a, b) == IF a = NaN \/ b = NaN THEN NaN ELSE a + b

\* map[name] = (map[name] || 0) + amount on an object whose entries are
\* kept in the order their keys were first set; a total that is NaN is
\* falsy and reads as 0.
addTo(map, name, amount) ==
  LET hits == {i \in 1..Len(map) : map[i].name = name}
      old == IF hits = {} \/ map[Min(hits)].value = NaN THEN 0 ELSE map[Min(hits)].value
  IN IF hits = {} THEN Append(map, [name |-> name, value |-> jsAdd(old, amount)])
     ELSE [map EXCEPT ![Min(hits)].value = jsAdd(old, amount)]

\* acc?.name || "-" (the placeholder stands for the dash of the source).
accountLabel(accs, id) ==
  LET k == findAccount(accs, id)
  IN IF k = 0 \/ accs[k].name = "" THEN "-" ELSE accs[k].name

\* categories.find((c) => c.id === t.categoryId)?.name || "Sin categoria"
categoryLabel(cats, id) ==
  LET hits == {i \in 1..Len(cats) : cats[i].id = id}
  IN IF hits = {} \/ cats[Min(hits)].name = "" THEN "Sin categoria" ELSE cats[Min(hits)].name

\* gastosPorCuenta (src/src/App.tsx:400-409) over the transactions shown.
RECURSIVE gastosPorCuentaLoop(_, _, _)
gastosPorCuentaLoop(map, log, accs) ==
  IF log = <<>> THEN map
  ELSE LET t == Head(log)
       IN gastosPorCuentaLoop(
            IF t.type # "GASTO" THEN map
            ELSE addTo(map, accountLabel(accs, t.accountFromId), t.amountCents),
            Tail(log), accs)

gastosPorCuenta(log, accs) == gastosPorCuentaLoop(<<>>, log, accs)

\* gastosPorCategoria (src/src/App.tsx:411-419).
RECURSIVE gastosPorCategoriaLoop(_, _, _)
gastosPorCategoriaLoop(map, log, cats) ==
  IF log = <<>> THEN map
  ELSE LET t == Head(log)
       IN gastosPorCategoriaLoop(
            IF t.type # "GASTO" THEN map
            ELSE addTo(map, categoryLabel(cats, t.categoryId), t.amountCents),
            Tail(log), cats)

gastosPorCategoria(log, cats) == gastosPorCategoriaLoop(<<>>, log, cats)

\* The days of the calendar the explored dates are taken from, as year,
\* month and day.
Calendar ==
  { <<2023, 9, 10>>, <<2023, 10, 5>>, <<2023, 11, 30>>, <<2023, 12, 31>>,
    <<2024, 1, 1>>, <<2024, 1, 20>>, <<2024, 2, 1>>, <<2024, 2, 29>>,
    <<2024, 3, 1>>, <<2024, 3, 2>>, <<2024, 3, 3>>, <<2024, 3, 15>>,
    <<2024, 4, 1>>, <<2024, 5, 1>>, <<2024, 5, 2>> }

\* String(n).padStart(2, "0") for a whole number n >= 0.
pad2(n) == IF n < 10 THEN <<"0">> \o digitsOf(n) ELSE digitsOf(n)

\* The date string YYYY-MM-DD of a day of the calendar.
isoDate(year, month, day) ==
  stringOf(digitsOf(year) \o <<"-">> \o pad2(month) \o <<"-">> \o pad2(day))

\* The date string of every day of Calendar.
DateStrings == [ymd \in Calendar |-> isoDate(ymd[1], ymd[2], ymd[3])]

\* new Date(dateStr): a date string YYYY-MM-DD is midnight UTC of that day,
\* found here among the days of Calendar; the empty string, like every
\* other string explored, is no date.
dateOf(dateStr) ==
  LET hits == {ymd \in Calendar : DateStrings[ymd] = dateStr}
  IN IF hits = {} THEN [year |-> NaN, month |-> NaN, day |-> NaN]
     ELSE LET ymd == CHOOSE x \in hits : TRUE
          IN [year |-> ymd[1], month |-> ymd[2], day |-> ymd[3]]

\* monthKey (src/src/App.tsx:196-199) on a device whose clock is offset
\* minutes ahead of UTC (less than a day either way): getFullYear and
\* getMonth read the local date, the day before when the offset is
\* negative.  The key is a text, one piece per character, "NaN" one piece.
monthKey(dateStr, offset) ==
  LET d == dateOf(dateStr)
      back == offset < 0 /\ d.day = 1
      year == IF back /\ d.month = 1 THEN d.year - 1 ELSE d.year
      month == IF ~back THEN d.month ELSE IF d.month = 1 THEN 12 ELSE d.month - 1
  IN IF d.year = NaN THEN numberToText(NaN) \o <<"-">> \o numberToText(NaN)
     ELSE numberToText(year) \o <<"-">> \o pad2(month)

\* The map gastosPorMes builds (src/src/App.tsx:422-427).
RECURSIVE gastosPorMesLoop(_, _, _)
gastosPorMesLoop(map, log, offset) ==
  IF log = <<>> THEN map
  ELSE LET t == Head(log)
       IN gastosPorMesLoop(
            IF t.type # "GASTO" THEN map
            ELSE addTo(map, monthKey(t.date, offset), t.amountCents),
            Tail(log), offset)

\* The first UTF-16 code unit of a piece of a key.
codeUnit(piece) ==
  CASE piece = "-" -> 45
    [] piece = "NaN" -> 78
    [] OTHER -> 48 + DigitValue(piece)

\* a < b as Array.prototype.sort compares strings without a comparator:
\* code unit by code unit, a proper prefix first.
RECURSIVE lessText(_, _)
lessText(a, b) ==
  IF b = <<>> THEN FALSE
  ELSE IF a = <<>> THEN TRUE
  ELSE IF codeUnit(Head(a)) # codeUnit(Head(b)) THEN codeUnit(Head(a)) < codeUnit(Head(b))
  ELSE lessText(Tail(a), Tail(b))

\* keys.sort() on keys that differ from one another.
RECURSIVE sort(_)
sort(keys) ==
  IF keys = <<>> THEN <<>>
  ELSE LET least == CHOOSE i \in 1..Len(keys) : \A j \in 1..Len(keys) : j # i => lessText(keys[i], keys[j])
       IN <<keys[least]>> \o sort(SubSeq(keys, 1, least - 1) \o SubSeq(keys, least + 1, Len(keys)))

\* list.slice(-n)
sliceLast(list, n) == IF Len(list) <= n THEN list ELSE SubSeq(list, Len(list) - n + 1, Len(list))

\* gastosPorMes (src/src/App.tsx:421-430): the map's keys sorted, the last
\* six of them, each with its total.
gastosPorMes(log, offset) ==
  LET map == gastosPorMesLoop(<<>>, log, offset)
      keys == sliceLast(sort([i \in 1..Len(map) |-> map[i].name]), 6)
  IN [k \in 1..Len(keys) |->
        [name |-> keys[k],
         value |-> map[CHOOSE i \in 1..Len(map) : map[i].name = keys[k]].value]]

\* The option "Todos los meses" of the month select.
ALL_MONTHS == <<"__all__">>

\* txsFiltered (src/src/App.tsx:395-398).
txsFiltered(log, reportMonth, offset) ==
  IF reportMonth = ALL_MONTHS THEN log
  ELSE SelectSeq(log, LAMBDA t : monthKey(t.date, offset) = reportMonth)

\* ------------------------------------------------------------------------
\* Inputs explored
\* ------------------------------------------------------------------------
\* A registry persisted by an earlier run: other names and order, opening
\* amounts set, a small limit on visa, optional fields of Account absent on
\* efectivo and rotativo, and daviplata, empresa and ahorros missing.
persistedAccounts ==
  << [id |-> "inversion", name |-> "Inversion - Ahorro", type |-> ACCOUNT_TYPES.CASH, initialBalanceCents |-> 2500],
     [id |-> "visa", name |-> "Card", type |-> ACCOUNT_TYPES.CREDIT,
      creditLimitCents |-> 20000, initialDebtCents |-> 5000],
     [id |-> "nequi", name |-> "Wallet", type |-> ACCOUNT_TYPES.CASH, initialBalanceCents |-> 10000],
     [id |-> "efectivo", name |-> "Efectivo", type |-> ACCOUNT_TYPES.CASH],
     [id |-> "rotativo", name |-> "Credito rotativo", type |-> ACCOUNT_TYPES.CREDIT,
      creditLimitCents |-> 100000] >>

\* computeBalances takes any registry: the seed registry, and a registry as
\* useLocalState reads it from storage (part_000:188 hands it to
\* computeBalances as read).
Registries == {defaultAccounts, persistedAccounts}

\* The fields of Tx that computeBalances reads.
Tx(type, amount, from, to) ==
  [type |-> type, amountCents |-> amount, accountFromId |-> from, accountToId |-> to]

\* Amount moved by the transactions of each type.
IngresoCents == 20000
GastoCents == 30000
TransferenciaCents == 4000

\* Destinations of the Incomes explored: Cash (designated for liquidity or
\* not), Credit, an id no registry holds, no id.
IncomeTargets == {"nequi", "inversion", "visa", "ghost", NULL}

\* Sources of the Expenses explored.
ExpenseSources == {"nequi", "inversion", "visa", "ghost"}

\* Source and destination of the Transfers explored.
TransferPairs ==
  { <<"nequi", "inversion">>, <<"inversion", "nequi">>,   \* Cash to Cash
    <<"nequi", "visa">>, <<"inversion", "visa">>,         \* Cash to Credit
    <<"visa", "nequi">>, <<"visa", "inversion">>,         \* Credit to Cash
    <<"visa", "rotativo">>, <<"rotativo", "visa">>,       \* Credit to Credit
    <<"nequi", "nequi">>, <<"visa", "visa">>,             \* an account to itself
    <<"ghost", "nequi">>, <<"nequi", "ghost">>,           \* an unknown side
    <<"ghost", "visa">>, <<"visa", "ghost">> }

\* The transactions explored, and an imported row without amount (parseCSV
\* gives it amountCents 0).
TxUniverse ==
  {Tx("INGRESO", IngresoCents, NULL, to) : to \in IncomeTargets}
  \cup {Tx("GASTO", GastoCents, from, NULL) : from \in ExpenseSources}
  \cup {Tx("TRANSFERENCIA", TransferenciaCents, ft[1], ft[2]) : ft \in TransferPairs}
  \cup {Tx("INGRESO", 0, NULL, "nequi")}

\* ------------------------------------------------------------------------
\* State machine
\* ------------------------------------------------------------------------
Init ==
  /\ accounts \in Registries
  /\ txs = <<>>
  /\ summary = computeBalances(accounts, txs)
  /\ liquidez = liquidezCents(summary)
  /\ categories = defaultCategories
  /\ form = formInitial
  /\ alerted = NULL
  /\ uuid = 0
  /\ reading = <<>>
  /\ mounted

\* setTxs((prev) => [tx, ...prev]): the updater of addTx (App.tsx:367) and,
\* record by record, of importCSV (App.tsx:384); the render that follows
\* recomputes the memoised summary (App.tsx:331) and liquidezCents (:335).
setTxsPrepend(t) ==
  /\ Len(txs) < MaxTxs
  /\ txs' = <<t>> \o txs
  /\ rendered
  /\ UNCHANGED <<accounts, categories, form, alerted, uuid, reading>>

Next == \E t \in TxUniverse : setTxsPrepend(t)

Spec == Init /\ [][Next]_vars

\* ------------------------------------------------------------------------
\* The entry form as a state machine
\* ------------------------------------------------------------------------
\* Most transactions saved from the form.
MaxSaved == 1

\* The registries the component renders with: accounts =
\* ensureAccounts(accountsRaw) (src/src/App.tsx:291) over what storage held.
AppRegistries == {ensureAccounts(defaultAccounts), ensureAccounts(persistedAccounts)}

\* What the user picks or types in the form.
FormEdits ==
  {<<"type", v>> : v \in {"INGRESO", "GASTO", "TRANSFERENCIA"}}
  \cup {<<"paymentMethod", v>> : v \in {"VISA", "NEQUI"}}
  \cup {<<"accountFromId", v>> : v \in {"visa", "nequi"}}
  \cup {<<"accountToId", v>> : v \in {"ahorros", "nequi"}}
  \cup {<<"categoryId", v>> : v \in {"mercado", "rendimientos"}}
  \cup {<<"amount", v>> : v \in {<<"1", "2", ".", "5">>, <<>>, <<"-", "5">>, <<"-">>}}

\* The component after its first render and effects: the form as created
\* (a Transfer without category: neither effect changes it), an empty log.
InitWith(registries) ==
  /\ accounts \in registries
  /\ categories = ensureCategories(defaultCategories)
  /\ txs = <<>>
  /\ summary = computeBalances(accounts, txs)
  /\ liquidez = liquidezCents(summary)
  /\ form = formInitial
  /\ alerted = NULL
  /\ uuid = 0
  /\ reading = <<>>
  /\ mounted

InitForm == InitWith(AppRegistries)

NextForm ==
  \/ \E e \in FormEdits : onChange(e[1], e[2])
  \/ (toCents(form.amount) > 0 => Len(txs) < MaxSaved) /\ addTx

SpecForm == InitForm /\ [][NextForm]_vars

\* ------------------------------------------------------------------------
\* The log as a state machine
\* ------------------------------------------------------------------------
\* Longest log explored, rows still being read included.
MaxLog == 2

\* Most ids crypto.randomUUID hands out.
MaxUuid == 3

\* Rows of the files imported.  An Expense as buildCSV wrote it, whose
\* account and category no registry holds:
rowExported ==
  <<"x1", ",", "GASTO", ",", "2024-02-01", ",", "7", "0", "0", ",", "ghost", ",", ",",
    "antojos", ",", "NEQUI", ",", "lunch">>

\* a short row with no id and no amount:
rowBare == <<",", "INGRESO", ",", "2024-03-01", ",", ",", ",", "nequi">>

\* an Expense whose amount is not a number:
rowText ==
  <<"x3", ",", "GASTO", ",", "2024-03-02", ",", "abc", ",", "nequi", ",", ",", "mercado">>

\* an Expense with a negative amount:
rowNegative ==
  <<"x4", ",", "GASTO", ",", "2024-03-03", ",", "-", "3", "0", "0", ",", "nequi", ",", ",", "mercado">>

\* The rows of the files imported: one row each, two rows, none.
FileRows ==
  << <<rowExported>>, <<rowBare>>, <<rowText>>, <<rowNegative, rowBare>>, <<>> >>

\* The text of the k-th file: the header and the rows, one per line; the
\* second file has CRLF line ends and a last line end.
fileText(k) ==
  IF k = 2 THEN header \o <<"\r", "\n">> \o rowBare \o <<"\r", "\n">>
  ELSE join(<<header>> \o FileRows[k], "\n")

Files == {fileText(k) : k \in 1..Len(FileRows)}

\* What the user changes in the form between saves.
LogEdits ==
  {<<"type", v>> : v \in {"INGRESO", "GASTO", "TRANSFERENCIA"}}
  \cup {<<"amount", <<"1", "2", ".", "5">> >>}

\* The room a file takes in the exploration: its rows, one if it has none.
weight(text) == IF dataLines(text) = <<>> THEN 1 ELSE Len(dataLines(text))

RECURSIVE inFlight(_)
inFlight(reads) == IF reads = <<>> THEN 0 ELSE weight(Head(reads)) + inFlight(Tail(reads))

NextLog ==
  \/ \E e \in LogEdits : onChange(e[1], e[2])
  \/ /\ toCents(form.amount) > 0 => (Len(txs) + inFlight(reading) < MaxLog /\ uuid < MaxUuid)
     /\ addTx
  \/ \E text \in Files :
       /\ Len(txs) + inFlight(reading) + weight(text) <= MaxLog
       /\ importCSV(text)
  \/ \E i \in 1..Len(reading) :
       /\ uuid + idless(dataLines(reading[i]), Len(dataLines(reading[i]))) <= MaxUuid
       /\ onload(i)
  \/ \E id \in idsOf(txs) : deleteTx(id)

\* The component over the registry an earlier run stored.
InitLog == InitWith({ensureAccounts(persistedAccounts)})

SpecLog == InitLog /\ [][NextLog]_vars

\* ------------------------------------------------------------------------
\* Vocabulary of the properties
\* ------------------------------------------------------------------------
KnownIds == {accounts[i].id : i \in 1..Len(accounts)}

IndexOf(id) == CHOOSE i \in 1..Len(accounts) : accounts[i].id = id

IsCash(id) == id \in KnownIds /\ accounts[IndexOf(id)].type = "CASH"

IsCredit(id) == id \in KnownIds /\ accounts[IndexOf(id)].type = "CREDIT"

Bal(sum, id) == sum.accounts[IndexOf(id)].balanceCents

Avail(sum, id) == sum.accounts[IndexOf(id)].creditAvailableCents

\* The log without its i-th transaction, and the balances it gives.
Without(i) == SubSeq(txs, 1, i - 1) \o SubSeq(txs, i + 1, Len(txs))

Before(i) == computeBalances(accounts, Without(i))

\* The same for the computeBalances of src/unnamed/part_000.
Now_part000 == computeBalances_part000(accounts, txs)

Before_part000(i) == computeBalances_part000(accounts, Without(i))

\* Every account outside ids has the same result in both summaries.
OthersUnchanged(now, before, ids) ==
  \A k \in 1..Len(accounts) :
    accounts[k].id \notin ids => now.accounts[k] = before.accounts[k]

Positions == 1..Len(txs)

\* ------------------------------------------------------------------------
\* C1
\* ------------------------------------------------------------------------
\* C1: computeBalances gives the same per-account balanceCents and
\* creditAvailableCents and the same liquidity for every permutation of the
\* transaction log, in both versions of computeBalances.
PermutationInvariance ==
  \A p \in Permutations(Positions) :
    LET q == [i \in Positions |-> txs[p[i]]]
        r == computeBalances(accounts, q)
    IN /\ r.accounts = summary.accounts
       /\ liquidezCents(r) = liquidez
       /\ computeBalances_part000(accounts, q) = Now_part000

\* Two different transactions of different types that both move nequi.
PermutationWitness ==
  /\ Len(txs) = 2
  /\ txs[1].type # txs[2].type
  /\ IsCash("nequi")
  /\ Bal(summary, "nequi") # Bal(Before(1), "nequi")
  /\ Bal(summary, "nequi") # Bal(Before(2), "nequi")

\* ------------------------------------------------------------------------
\* C2
\* ------------------------------------------------------------------------
IsIncomeIntoCredit(t) == t.type = "INGRESO" /\ IsCredit(t.accountToId)

\* C2: an Income of amount n into a Credit destination lowers that account's
\* debt by n: its balanceCents and its creditAvailableCents each rise by n,
\* without clamping (debt 5000 and Income 20000 give balanceCents 15000).
IncomeIntoCreditPaysDebt ==
  \A i \in Positions :
    IsIncomeIntoCredit(txs[i]) =>
      LET id == txs[i].accountToId
          n == txs[i].amountCents
      IN /\ Bal(summary, id) = Bal(Before(i), id) + n
         /\ Avail(summary, id) = Avail(Before(i), id) + n

\* The same statement of the computeBalances of src/unnamed/part_000, whose
\* INGRESO branch has the payment line.
IncomeIntoCreditPaysDebt_part000 ==
  \A i \in Positions :
    IsIncomeIntoCredit(txs[i]) =>
      LET id == txs[i].accountToId
          n == txs[i].amountCents
      IN /\ Bal(Now_part000, id) = Bal(Before_part000(i), id) + n
         /\ Avail(Now_part000, id) = Avail(Before_part000(i), id) + n
         /\ OthersUnchanged(Now_part000, Before_part000(i), {id})

\* ------------------------------------------------------------------------
\* C3
\* ------------------------------------------------------------------------
IsCashToCash(t) ==
  /\ t.type = "TRANSFERENCIA"
  /\ IsCash(t.accountFromId)
  /\ IsCash(t.accountToId)
  /\ t.accountFromId # t.accountToId

\* C3: a Transfer of n between two distinct Cash accounts lowers the source
\* by n, raises the destination by n, changes no other account and leaves
\* the sum of the two balances unchanged.
CashTransferConserves ==
  \A i \in Positions :
    IsCashToCash(txs[i]) =>
      LET from == txs[i].accountFromId
          to == txs[i].accountToId
          n == txs[i].amountCents
          b == Before(i)
      IN /\ Bal(summary, from) = Bal(b, from) - n
         /\ Bal(summary, to) = Bal(b, to) + n
         /\ OthersUnchanged(summary, b, {from, to})
         /\ Bal(summary, from) + Bal(summary, to) = Bal(b, from) + Bal(b, to)

\* A = 10000, B = 2500, Transfer 4000 A -> B on top of an Expense.
CashTransferWitness ==
  /\ accounts = persistedAccounts
  /\ Len(txs) = 2
  /\ txs[1] = Tx("TRANSFERENCIA", TransferenciaCents, "nequi", "inversion")
  /\ txs[2].type = "GASTO"
  /\ Bal(summary, "nequi") = Bal(Before(1), "nequi") - TransferenciaCents
  /\ Bal(summary, "inversion") = Bal(Before(1), "inversion") + TransferenciaCents

\* ------------------------------------------------------------------------
\* C4
\* ------------------------------------------------------------------------
IsTransferFromCredit(t) ==
  /\ t.type = "TRANSFERENCIA"
  /\ IsCredit(t.accountFromId)
  /\ t.accountToId \in KnownIds

IsInert(t) ==
  \/ t.type = "INGRESO" /\ t.accountToId \notin KnownIds
  \/ t.type = "GASTO" /\ t.accountFromId \notin KnownIds
  \/ /\ t.type = "TRANSFERENCIA"
     /\ \/ t.accountFromId \notin KnownIds
        \/ t.accountToId \notin KnownIds
        \/ t.accountFromId = t.accountToId

\* C5: such a transaction is inert: every account's result and the
\* liquidity are the same with and without it.
InertTransactions ==
  \A i \in Positions :
    IsInert(txs[i]) =>
      /\ summary.accounts = Before(i).accounts
      /\ liquidez = liquidezCents(Before(i))

\* A Transfer from a known Cash account to an unknown id, and a Transfer of
\* a Credit account to itself, on a registry whose balances have moved.
InertWitness ==
  /\ Len(txs) = 2
  /\ \/ txs[1] = Tx("TRANSFERENCIA", TransferenciaCents, "nequi", "ghost")
     \/ txs[1] = Tx("TRANSFERENCIA", TransferenciaCents, "visa", "visa")
  /\ IsCash("nequi") /\ IsCredit("visa")
  /\ ~IsInert(txs[2])
  /\ summary.accounts # computeBalances(accounts, <<>>).accounts
  /\ summary.accounts = Before(1).accounts

\* ------------------------------------------------------------------------
\* C6
\* ------------------------------------------------------------------------
\* The registry with every opening balance and opening debt set to zero.
ZeroOpenings ==
  [k \in 1..Len(accounts) |->
     [f \in DOMAIN accounts[k] |->
        IF f \in {"initialBalanceCents", "initialDebtCents"} THEN 0 ELSE accounts[k][f]]]

\* C6: a Credit account reports balanceCents = -debt and
\* creditAvailableCents = creditLimitCents - debt for the same debt, the
\* debt being the opening debt plus what the log adds; a Cash account
\* reports no available credit and its opening balance plus what the log
\* adds.
CreditBalanceIdentity ==
  LET z == computeBalances(ZeroOpenings, txs)
  IN \A k \in 1..Len(accounts) :
       LET a == accounts[k]
           r == summary.accounts[k]
       IN /\ r.account = a
          /\ a.type = "CREDIT" =>
               /\ r.creditAvailableCents = OrZero(a, "creditLimitCents") + r.balanceCents
               /\ r.balanceCents = z.accounts[k].balanceCents - OrZero(a, "initialDebtCents")
               /\ txs = <<>> => r.balanceCents = 0 - OrZero(a, "initialDebtCents")
          /\ a.type = "CASH" =>
               /\ r.creditAvailableCents = NULL
               /\ r.balanceCents = z.accounts[k].balanceCents + OrZero(a, "initialBalanceCents")
               /\ txs = <<>> => r.balanceCents = OrZero(a, "initialBalanceCents")

\* Opening debt 5000, limit 20000, two expenses from the card.
CreditBalanceWitness ==
  /\ accounts = persistedAccounts
  /\ txs = <<Tx("GASTO", GastoCents, "visa", NULL), Tx("GASTO", GastoCents, "visa", NULL)>>
  /\ Bal(summary, "visa") = 0 - (5000 + 2 * GastoCents)
  /\ Avail(summary, "visa") = 20000 - (5000 + 2 * GastoCents)
  /\ Bal(summary, "nequi") = 10000

\* ------------------------------------------------------------------------
\* C7
\* ------------------------------------------------------------------------
\* C7: an Income of n into a Cash destination raises exactly that account's
\* balance by n, an Expense of n from a Cash source lowers exactly that
\* account's balance by n; no other account changes.
CashIncomeExpense ==
  \A i \in Positions :
    LET t == txs[i]
        n == t.amountCents
        b == Before(i)
    IN /\ (t.type = "INGRESO" /\ IsCash(t.accountToId)) =>
            /\ Bal(summary, t.accountToId) = Bal(b, t.accountToId) + n
            /\ OthersUnchanged(summary, b, {t.accountToId})
       /\ (t.type = "GASTO" /\ IsCash(t.accountFromId)) =>
            /\ Bal(summary, t.accountFromId) = Bal(b, t.accountFromId) - n
            /\ OthersUnchanged(summary, b, {t.accountFromId})

\* Wallet at 0 (seed registry): Income into it, then an Expense from it.
CashIncomeExpenseWitness ==
  /\ accounts = defaultAccounts
  /\ txs = <<Tx("GASTO", GastoCents, "nequi", NULL), Tx("INGRESO", IngresoCents, NULL, "nequi")>>
  /\ Bal(Before(1), "nequi") = IngresoCents
  /\ Bal(summary, "nequi") = IngresoCents - GastoCents

\* ------------------------------------------------------------------------
\* C8
\* ------------------------------------------------------------------------
\* C8: an Expense of n from a Credit source raises its debt by n:
\* balanceCents and creditAvailableCents each fall by n, unclamped, so the
\* available credit is negative once the debt exceeds the limit; no other
\* account changes.
CreditExpense ==
  \A i \in Positions :
    LET t == txs[i]
        n == t.amountCents
        b == Before(i)
    IN (t.type = "GASTO" /\ IsCredit(t.accountFromId)) =>
         LET id == t.accountFromId
             limit == OrZero(accounts[IndexOf(id)], "creditLimitCents")
         IN /\ Bal(summary, id) = Bal(b, id) - n
            /\ Avail(summary, id) = Avail(b, id) - n
            /\ (0 - Bal(summary, id) > limit) => Avail(summary, id) < 0
            /\ OthersUnchanged(summary, b, {id})

\* Limit 20000, debt 5000, Expense 30000: the available credit goes from
\* 15000 to -15000.
CreditExpenseWitness ==
  /\ accounts = persistedAccounts
  /\ Len(txs) >= 1
  /\ txs[1] = Tx("GASTO", GastoCents, "visa", NULL)
  /\ Avail(Before(1), "visa") >= 0
  /\ Avail(summary, "visa") = Avail(Before(1), "visa") - GastoCents
  /\ Avail(summary, "visa") < 0

\* ------------------------------------------------------------------------
\* C9
\* ------------------------------------------------------------------------
IsCashToCredit(t) ==
  /\ t.type = "TRANSFERENCIA"
  /\ IsCash(t.accountFromId)
  /\ IsCredit(t.accountToId)

\* C9: a Transfer of n from a Cash source to a Credit destination lowers the
\* source's balance by n and the destination's debt by n (its balanceCents
\* and creditAvailableCents each rise by n); no other account changes.  Both
\* versions of computeBalances agree.
CashToCreditPayment ==
  \A i \in Positions :
    IsCashToCredit(txs[i]) =>
      LET from == txs[i].accountFromId
          to == txs[i].accountToId
          n == txs[i].amountCents
          b == Before(i)
          c == Before_part000(i)
      IN /\ Bal(summary, from) = Bal(b, from) - n
         /\ Bal(summary, to) = Bal(b, to) + n
         /\ Avail(summary, to) = Avail(b, to) + n
         /\ OthersUnchanged(summary, b, {from, to})
         /\ Bal(Now_part000, from) = Bal(c, from) - n
         /\ Bal(Now_part000, to) = Bal(c, to) + n
         /\ Avail(Now_part000, to) = Avail(c, to) + n
         /\ OthersUnchanged(Now_part000, c, {from, to})

\* Wallet 10000 pays 4000 of the card's debt after an expense on the card.
CashToCreditWitness ==
  /\ accounts = persistedAccounts
  /\ txs = <<Tx("TRANSFERENCIA", TransferenciaCents, "nequi", "visa"), Tx("GASTO", GastoCents, "visa", NULL)>>
  /\ Bal(summary, "nequi") = 10000 - TransferenciaCents
  /\ Bal(summary, "visa") = 0 - (5000 + GastoCents - TransferenciaCents)

\* ------------------------------------------------------------------------
\* C10
\* ------------------------------------------------------------------------
\* The accounts designated for liquidity.
Designated == {"daviplata", "nequi", "empresa", "efectivo", "ahorros"}

\* The final Cash balance of id, zero when the registry has no such account.
CashBalanceOf(id) == IF IsCash(id) THEN Bal(summary, id) ELSE 0

RECURSIVE SumCash(_)
SumCash(S) ==
  IF S = {} THEN 0
  ELSE LET x == CHOOSE y \in S : TRUE
       IN CashBalanceOf(x) + SumCash(S \ {x})

\* The accounts named by the fields the transaction's type uses.
Touched(t) ==
  IF t.type = "INGRESO" THEN {t.accountToId}
  ELSE IF t.type = "GASTO" THEN {t.accountFromId}
  ELSE {t.accountFromId, t.accountToId}

\* C10: the liquidity total is the sum of the final Cash balances of
\* daviplata, nequi, empresa, efectivo and ahorros, an id absent from the
\* registry counting zero; a transaction touching only other accounts leaves
\* it unchanged.  Both versions of the liquidity total agree.
LiquidityTotal ==
  /\ liquidez = SumCash(Designated)
  /\ Now_part000.liquidez = liquidez
  /\ \A i \in Positions :
       Touched(txs[i]) \cap Designated = {} =>
         /\ liquidez = liquidezCents(Before(i))
         /\ Now_part000.liquidez = Before_part000(i).liquidez

\* Registry without daviplata, empresa and ahorros: an Income into
\* nequi counts, the Transfer out of inversion into visa does not.
LiquidityWitness ==
  /\ accounts = persistedAccounts
  /\ txs = <<Tx("TRANSFERENCIA", TransferenciaCents, "inversion", "visa"), Tx("INGRESO", IngresoCents, NULL, "nequi")>>
  /\ liquidez = 10000 + IngresoCents
  /\ Bal(summary, "inversion") = 2500 - TransferenciaCents


\* ------------------------------------------------------------------------
\* C11
\* ------------------------------------------------------------------------
\* A number that is a strictly positive integer.
IsPositiveCents(n) == n # NaN /\ n > 0

\* C11 as stated: after any sequence of add, import and delete operations
\* every transaction in the log has an amountCents that is a strictly
\* positive integer.
AmountsPositive == \A i \in 1..Len(txs) : IsPositiveCents(txs[i].amountCents)

\* C11: every transaction the add operation puts in the log goes to the
\* front of it with an amountCents that is a strictly positive integer.
\* (Import stores the amount its row spells: zero, negative, not a number.)
AddedAmountsPositive ==
  [][(addTx /\ txs' # txs) => (Tail(txs') = txs /\ IsPositiveCents(txs'[1].amountCents))]_vars

\* A log holding a saved transaction (12.5 typed: 1250 cents) and an
\* imported row whose amount is not positive.
AddedAmountsWitness ==
  /\ \E i \in 1..Len(txs) : txs[i].amountCents = 1250
  /\ \E i \in 1..Len(txs) : ~IsPositiveCents(txs[i].amountCents)

\* ------------------------------------------------------------------------
\* C12
\* ------------------------------------------------------------------------
\* Amounts that are zero, empty, negative, or no number at all.
Unacceptable == {<<"0">>, <<>>, <<"-", "5">>, <<"-">>}

\* C12: an add whose entered amount parses to zero, to a negative number or
\* does not parse is rejected: the dialog is shown, no transaction is
\* appended, and the log, the registries and the form's amount stay as they
\* were.
RejectedAdd ==
  [][(addTx /\ form.amount \in Unacceptable)
       => /\ alerted' = "Monto invalido"
          /\ txs' = txs
          /\ accounts' = accounts
          /\ categories' = categories
          /\ form'.amount = form.amount]_vars

\* A negative amount was typed and the save was turned down.
RejectedAddWitness ==
  /\ alerted = "Monto invalido"
  /\ form.amount = <<"-", "5">>
  /\ txs = <<>>

\* ------------------------------------------------------------------------
\* C13
\* ------------------------------------------------------------------------
\* C13: no Transfer created through the add operation has its source
\* account equal to its destination account.  (Under SpecForm every
\* transaction of the log comes from addTx.)
NoSelfTransferSaved ==
  \A i \in 1..Len(txs) :
    txs[i].type = "TRANSFERENCIA" => txs[i].accountFromId # txs[i].accountToId

\* ------------------------------------------------------------------------
\* C14
\* ------------------------------------------------------------------------
\* x names something: neither null nor the empty string.
Present(x) == x # NULL /\ x # ""

\* The category id is in the registry with that kind.
HasKind(id, kind) ==
  \E k \in 1..Len(categories) : categories[k].id = id /\ categories[k].kind = kind

\* The field requirements of a transaction's type.
FieldRequirements(t) ==
  CASE t.type = "INGRESO" ->
         /\ Present(t.accountToId) /\ t.accountFromId = NULL
         /\ (t.categoryId = NULL \/ HasKind(t.categoryId, "INGRESO"))
    [] t.type = "GASTO" ->
         /\ Present(t.accountFromId) /\ t.accountToId = NULL
         /\ (t.categoryId = NULL \/ HasKind(t.categoryId, "GASTO"))
    [] t.type = "TRANSFERENCIA" ->
         /\ Present(t.accountFromId) /\ Present(t.accountToId)
         /\ t.categoryId = NULL /\ t.paymentMethod = NULL
    [] OTHER -> FALSE

\* C14: every transaction created through the add operation meets the
\* field requirements of its type, whatever changes of type, payment
\* method, account and category preceded the save.  (Under SpecForm every
\* transaction of the log comes from addTx.)
SavedMeetRequirements == \A i \in 1..Len(txs) : FieldRequirements(txs[i])

\* An Income saved with the category the effect chose ("trabajos", which
\* the user never picks).
SavedMeetRequirementsWitness ==
  \E i \in 1..Len(txs) : txs[i].type = "INGRESO" /\ txs[i].categoryId = "trabajos"

\* ------------------------------------------------------------------------
\* C15
\* ------------------------------------------------------------------------
\* small is large with some elements left out, the others in order.
RECURSIVE IsSubsequence(_, _)
IsSubsequence(small, large) ==
  IF small = <<>> THEN TRUE
  ELSE IF large = <<>> THEN FALSE
  ELSE IF Head(small) = Head(large) THEN IsSubsequence(Tail(small), Tail(large))
  ELSE IsSubsequence(small, Tail(large))

\* Every transaction of the log stays as it is: a step puts records in
\* front of the log or takes records out of it.
RecordsKept ==
  \/ Len(txs') >= Len(txs) /\ SubSeq(txs', Len(txs') - Len(txs) + 1, Len(txs')) = txs
  \/ IsSubsequence(txs', txs)

IdsDistinct == \A i, j \in 1..Len(txs) : i # j => txs[i].id # txs[j].id

\* C15 as stated: after any sequence of add, import and delete operations
\* the ids of the log are pairwise distinct, and the id of a transaction
\* never changes once it is in the log.
IdsDistinctAndKept == [](IdsDistinct) /\ [][RecordsKept]_vars

\* C15: the id the add operation gives a transaction is the id of no
\* transaction in the log, and no operation changes a transaction (its id
\* included) once it is in the log.  (Import stores the ids its rows
\* spell, also those the log already holds.)
AddedIdsNewAndKept ==
  [][/\ (addTx /\ txs' # txs) => txs'[1].id \notin idsOf(txs)
     /\ RecordsKept]_vars

\* Two saved transactions in the log.
AddedIdsWitness ==
  /\ Len(txs) = 2
  /\ txs[1].amountCents = 1250 /\ txs[2].amountCents = 1250
  /\ txs[1].id # txs[2].id

\* ------------------------------------------------------------------------
\* Export and import as a state machine
\* ------------------------------------------------------------------------
\* Longest log exported.
MaxCsvLog == 2

\* The elements of a sequence.
Range(s) == {s[i] : i \in 1..Len(s)}

\* Transactions a log can hold.  Saved from the form: of each type, dated
\* today or with the date input cleared, with or without a note holding a
\* comma; and the records parseCSV makes of the rows of Files.
CsvRecords ==
  {txOfForm([formInitial EXCEPT !.type = type, !.date = date, !.note = note,
                                !.categoryId = IF type = "GASTO" THEN "mercado" ELSE NULL],
            1250, randomUUID(1)) :
     type \in {"INGRESO", "GASTO", "TRANSFERENCIA"},
     date \in {todayStr, ""},
     note \in {<<>>, <<"a", ",", "b">>}}
  \cup UNION {Range(parseCSV(text, 0)) : text \in Files}

\* The logs exported: every sequence of at most MaxCsvLog of them.
CsvLogs == UNION {[1..n -> CsvRecords] : n \in 0..MaxCsvLog}

InitCSV ==
  /\ accounts = ensureAccounts(defaultAccounts)
  /\ categories = ensureCategories(defaultCategories)
  /\ txs \in CsvLogs
  /\ summary = computeBalances(accounts, txs)
  /\ liquidez = liquidezCents(summary)
  /\ form = formInitial
  /\ alerted = NULL
  /\ uuid = 1
  /\ reading = <<>>
  /\ mounted

\* exportCSV (src/src/App.tsx:372-381) writes buildCSV(txs) to a file, and
\* the user picks that file for import.
exportCSV ==
  /\ reading = <<>>
  /\ Len(txs) <= MaxCsvLog
  /\ importCSV(buildCSV(txs))

NextCSV ==
  \/ exportCSV
  \/ onload(1)

SpecCSV == InitCSV /\ [][NextCSV]_vars

\* ------------------------------------------------------------------------
\* C16
\* ------------------------------------------------------------------------
\* The tuple of a transaction the round trip is about.
TupleOf(t) ==
  <<t.type, t.date, t.amountCents, t.accountFromId, t.accountToId, t.categoryId, t.paymentMethod>>

\* Two logs hold the same tuples, each as many times.
SameTuples(a, b) ==
  \A x \in {TupleOf(a[i]) : i \in 1..Len(a)} \cup {TupleOf(b[i]) : i \in 1..Len(b)} :
    Cardinality({i \in 1..Len(a) : TupleOf(a[i]) = x})
      = Cardinality({i \in 1..Len(b) : TupleOf(b[i]) = x})

\* C16: the text buildCSV makes of a log, parsed by parseCSV onto an empty
\* log, gives as many records as the log has and the same multiset of
\* (type, date, amountCents, accountFromId, accountToId, categoryId,
\* paymentMethod) tuples.  While the exported file is being read, the log
\* is still the one exported.
RoundTrip ==
  \A k \in 1..Len(reading) :
    LET back == parseCSV(reading[k], uuid)
    IN Len(back) = Len(txs) /\ SameTuples(back, txs)

\* The same for the logs in which every transaction has a date.
RoundTripDated ==
  (\A i \in 1..Len(txs) : txs[i].date # "") => RoundTrip

\* A log of two dated transactions, one with a comma in its note, exported
\* and parsed back.
RoundTripDatedWitness ==
  /\ Len(reading) = 1
  /\ Len(txs) = 2
  /\ \A i \in 1..2 : txs[i].date # ""
  /\ \E i \in 1..2 : txs[i].note = <<"a", ",", "b">>

\* ------------------------------------------------------------------------
\* C19  Import prepends the file's records
\* ------------------------------------------------------------------------
\* The record a row of the files stands for, written out field by field;
\* the row without an id is given with the id left empty.
recordOf(row) ==
  CASE row = rowExported ->
         [id |-> "x1", type |-> "GASTO", date |-> "2024-02-01", amountCents |-> 700,
          accountFromId |-> "ghost", accountToId |-> NULL, categoryId |-> "antojos",
          paymentMethod |-> "NEQUI", note |-> <<"lunch">>]
    [] row = rowBare ->
         [id |-> "", type |-> "INGRESO", date |-> "2024-03-01", amountCents |-> 0,
          accountFromId |-> NULL, accountToId |-> "nequi", categoryId |-> NULL,
          paymentMethod |-> NULL, note |-> NULLTEXT]
    [] row = rowText ->
         [id |-> "x3", type |-> "GASTO", date |-> "2024-03-02", amountCents |-> NaN,
          accountFromId |-> "nequi", accountToId |-> NULL, categoryId |-> "mercado",
          paymentMethod |-> NULL, note |-> NULLTEXT]
    [] row = rowNegative ->
         [id |-> "x4", type |-> "GASTO", date |-> "2024-03-03", amountCents |-> -300,
          accountFromId |-> "nequi", accountToId |-> NULL, categoryId |-> "mercado",
          paymentMethod |-> NULL, note |-> NULLTEXT]

\* The record t is what the row stands for, a row without an id having got
\* an id no record of the log before has.
ImportedAs(t, row, before) ==
  IF recordOf(row).id = ""
  THEN t.id # "" /\ t.id \notin idsOf(before) /\ [t EXCEPT !.id = ""] = recordOf(row)
  ELSE t = recordOf(row)

\* The log after is the rows of the file, in the file's order, and then
\* the log before.
Prepended(rows, before, after) ==
  /\ Len(after) = Len(rows) + Len(before)
  /\ SubSeq(after, Len(rows) + 1, Len(after)) = before
  /\ \A j \in 1..Len(rows) : ImportedAs(after[j], rows[j], before)

\* C19: when a file that was read arrives, the log becomes the file's
\* records in file order followed by the log before, whatever the log and
\* the rows hold: no row is dropped for an id the log has or an amount that
\* is no positive number, a row without an id gets a fresh id and a row
\* without an amount gets amountCents 0.
ImportPrepends ==
  [][Len(reading') < Len(reading) =>
       \E i \in 1..Len(reading) : \E k \in 1..Len(FileRows) :
         /\ reading[i] = fileText(k)
         /\ reading' = SubSeq(reading, 1, i - 1) \o SubSeq(reading, i + 1, Len(reading))
         /\ Prepended(FileRows[k], txs, txs')]_vars

\* The two-row file arrived: its first row first, then the row without id
\* and without amount, with a generated id and amountCents 0.
ImportPrependsWitness ==
  /\ Len(txs) = 2
  /\ txs[1].id = "x4" /\ txs[1].amountCents = -300
  /\ txs[2].type = "INGRESO" /\ txs[2].amountCents = 0 /\ txs[2].id = randomUUID(uuid)

\* ------------------------------------------------------------------------
\* C20  An imported row with an amount that is no number
\* ------------------------------------------------------------------------
\* The total a report holds under a name, 0 when it has no such entry.
TotalOf(view, name) ==
  LET hits == {i \in 1..Len(view) : view[i].name = name}
  IN IF hits = {} THEN 0 ELSE view[Min(hits)].value

NamesOf(view) == {view[i].name : i \in 1..Len(view)}

\* Two reports hold the same total under every name.
SameTotals(a, b) ==
  \A name \in NamesOf(a) \cup NamesOf(b) : TotalOf(a, name) = TotalOf(b, name)

\* The offsets from UTC, in minutes, of the devices considered.
Offsets == {-300, 0, 60}

\* C20: the record imported from the row x3, whose amount field reads
\* "abc", has amountCents 0 and adds nothing: the balances and every total
\* by account, by category and by month are what they are without it.
UnparseableCountsZero ==
  \A i \in 1..Len(txs) :
    txs[i].id = "x3" =>
      /\ txs[i].amountCents = 0
      /\ summary = Before(i)
      /\ SameTotals(gastosPorCuenta(txs, accounts), gastosPorCuenta(Without(i), accounts))
      /\ SameTotals(gastosPorCategoria(txs, categories), gastosPorCategoria(Without(i), categories))
      /\ \A offset \in Offsets :
           SameTotals(gastosPorMesLoop(<<>>, txs, offset), gastosPorMesLoop(<<>>, Without(i), offset))

\* What holds of that record: the balances are what they are without it.
UnparseableLeavesBalances ==
  \A i \in 1..Len(txs) : txs[i].id = "x3" => summary = Before(i)

\* What fails of it besides the amount: the totals of the reports.
UnparseableLeavesTotals ==
  \A i \in 1..Len(txs) :
    txs[i].id = "x3" =>
      /\ SameTotals(gastosPorCuenta(txs, accounts), gastosPorCuenta(Without(i), accounts))
      /\ SameTotals(gastosPorCategoria(txs, categories), gastosPorCategoria(Without(i), categories))
      /\ \A offset \in Offsets :
           SameTotals(gastosPorMesLoop(<<>>, txs, offset), gastosPorMesLoop(<<>>, Without(i), offset))

\* ------------------------------------------------------------------------
\* Registries in storage (src/src/App.tsx:278-292, part_000:188-206)
\* ------------------------------------------------------------------------
\* The most entries a stored registry holds in the exploration.
MaxStored == 2

\* Accounts an earlier run stored: nequi as seeded, nequi and visa with
\* other fields than their seeds, and an account that is no seed.
StoredAccountPool ==
  { defaultAccounts[2],
    [id |-> "nequi", name |-> "Wallet", type |-> ACCOUNT_TYPES.CASH, initialBalanceCents |-> 10000],
    [id |-> "visa", name |-> "Card", type |-> ACCOUNT_TYPES.CASH, initialBalanceCents |-> 5000],
    [id |-> "ghost", name |-> "Old account", type |-> ACCOUNT_TYPES.CASH, initialBalanceCents |-> 0] }

\* Categories an earlier run stored: mercado as seeded, mercado with another
\* name and kind, a category that is no seed, and one stored before
\* categories had a kind.
StoredCategoryPool ==
  { defaultCategories[2],
    [id |-> "mercado", name |-> "Groceries", kind |-> "INGRESO"],
    [id |-> "antojos", name |-> "Antojos", kind |-> "GASTO"],
    [id |-> "legacy", name |-> "Legacy"] }

\* The registries of at most MaxStored entries of a pool, ids unique.
StoredFrom(pool) ==
  {s \in UNION {[1..n -> pool] : n \in 0..MaxStored} :
     \A i, j \in 1..Len(s) : i # j => s[i].id # s[j].id}

\* useLocalState reads the registries from storage before the first
\* effects run; the log is empty.  accounts and categories hold the state
\* of the hooks, summary what the first render shows.
InitReconcile ==
  /\ accounts \in StoredFrom(StoredAccountPool)
  /\ categories \in StoredFrom(StoredCategoryPool)
  /\ txs = <<>>
  /\ summary = computeBalances(ensureAccounts(accounts), txs)
  /\ liquidez = liquidezCents(summary)
  /\ form = formInitial
  /\ alerted = NULL
  /\ uuid = 0
  /\ reading = <<>>
  /\ localStorage = written(accounts, categories, txs)
  /\ failure = "none"
  /\ phase = "rendered"

\* The effect "Migrations / safety" (src/src/App.tsx:284-289) and the
\* render after it (291-292, 327).
migrations ==
  /\ accounts' = ensureAccounts(accounts)
  /\ categories' = ensureCategories(categories)
  /\ summary' = computeBalances(ensureAccounts(accounts'), txs)
  /\ liquidez' = liquidezCents(summary')
  /\ localStorage' = setItem(setItem(setItem(localStorage, failure, LS_KEYS.ACCOUNTS, accounts'),
                                      failure, LS_KEYS.CATEGORIES, categories'),
                              failure, LS_KEYS.TXS, txs)
  /\ phase' = "mounted"
  /\ UNCHANGED <<txs, form, alerted, uuid, reading, failure>>

NextReconcile == migrations

SpecReconcile == InitReconcile /\ [][NextReconcile]_vars

\* !(c as any).kind
lacksKind(c) == "kind" \notin DOMAIN c \/ c.kind = ""

\* The two migration effects of src/unnamed/part_000:193-206 and the render
\* after them (part_000:188).
\* The effect of useLocalState of src/unnamed/part_000:97 runs first: its
\* setItem is in no try, so a store that throws ends the effects with an
\* error no boundary catches and React unmounts the component.
migrations_part000 ==
  /\ phase # "unmounted"
  /\ IF failure # "none"
     THEN /\ phase' = "unmounted"
          /\ UNCHANGED <<accounts, categories, summary, liquidez, localStorage>>
     ELSE /\ accounts' = accounts \o SelectSeq(defaultAccounts, LAMBDA def : def.id \notin idsOf(accounts))
          /\ categories' = IF \E i \in 1..Len(categories) : lacksKind(categories[i])
                           THEN defaultCategories ELSE categories
          /\ summary' = computeBalances_part000(accounts', txs)
          /\ liquidez' = summary'.liquidez
          /\ localStorage' = written(accounts', categories', txs)
          /\ phase' = "mounted"
  /\ UNCHANGED <<txs, form, alerted, uuid, reading, failure>>

\* The store took the registries of an earlier run; in this run it works
\* or has no room left.
InitReconcile_part000 ==
  /\ accounts \in StoredFrom(StoredAccountPool)
  /\ categories \in StoredFrom(StoredCategoryPool)
  /\ txs = <<>>
  /\ summary = computeBalances_part000(accounts, txs)
  /\ liquidez = summary.liquidez
  /\ form = formInitial
  /\ alerted = NULL
  /\ uuid = 0
  /\ reading = <<>>
  /\ localStorage = written(accounts, categories, txs)
  /\ failure \in {"none", "quota"}
  /\ phase = "rendered"

NextReconcile_part000 == migrations_part000

SpecReconcile_part000 == InitReconcile_part000 /\ [][NextReconcile_part000]_vars

\* ------------------------------------------------------------------------
\* C17  Reconciliation is additive
\* ------------------------------------------------------------------------
\* Every entry stays with its fields and the entries stay in their order,
\* and every seed whose id was missing is there with the seed's fields.
KeepsAndCompletes(before, after, seeds) ==
  /\ IsSubsequence(before, after)
  /\ \A k \in 1..Len(seeds) :
       seeds[k].id \notin idsOf(before) => \E j \in 1..Len(after) : after[j] = seeds[k]

\* C17: reconciliation removes no entry of a stored registry, replaces none
\* by its seed and keeps the entries' order, and adds every seed whose id
\* was missing, for accounts and for categories.
ReconcileAdditive ==
  [][/\ KeepsAndCompletes(accounts, accounts', defaultAccounts)
     /\ KeepsAndCompletes(categories, categories', defaultCategories)]_vars

\* ------------------------------------------------------------------------
\* C18  Reconciliation is idempotent
\* ------------------------------------------------------------------------
\* C18: reconciling a reconciled registry gives that registry again, for
\* the accounts and for the categories, whether the registry is as stored
\* or has been through the migrations.
ReconcileIdempotent ==
  /\ ensureAccounts(ensureAccounts(accounts)) = ensureAccounts(accounts)
  /\ ensureCategories(ensureCategories(categories)) = ensureCategories(categories)

\* The migrations ran over registries they had to complete: the stored
\* entries in front, one of them differing from its seed, the seeds after.
ReconcileIdempotentWitness ==
  /\ Len(accounts) = Len(defaultAccounts) + 1
  /\ accounts[1].id = "ghost" /\ accounts[2].name = "Wallet"
  /\ Len(categories) = Len(defaultCategories) + 1
  /\ categories[1].name = "Groceries" /\ categories[2].id = "antojos"
  /\ ensureAccounts(accounts) = accounts /\ ensureCategories(categories) = categories

\* ------------------------------------------------------------------------
\* C27  Transfers and the net position
\* ------------------------------------------------------------------------
RECURSIVE SumBalances(_)
SumBalances(per) ==
  IF per = <<>> THEN 0 ELSE Head(per).balanceCents + SumBalances(Tail(per))

\* The sum of the Cash balances minus the sum of the Credit debts: the
\* balanceCents of a Credit account is its debt negated.
NetPosition(sum) == SumBalances(sum.accounts)

\* C27: every Transfer of the log, whatever the types of its two accounts,
\* leaves the net position as it is without it.
TransfersKeepNetPosition ==
  \A i \in Positions :
    txs[i].type = "TRANSFERENCIA" => NetPosition(summary) = NetPosition(Before(i))

\* What holds: a Transfer changes the net position only when it goes from a
\* Credit account to another Credit account, and then raises it by n.
TransfersKeepNetPositionButCreditToCredit ==
  \A i \in Positions :
    txs[i].type = "TRANSFERENCIA" =>
      NetPosition(summary) =
        NetPosition(Before(i))
          + (IF IsCredit(txs[i].accountFromId) /\ IsCredit(txs[i].accountToId)
                /\ txs[i].accountFromId # txs[i].accountToId
             THEN txs[i].amountCents ELSE 0)

\* ------------------------------------------------------------------------
\* C25  Delete
\* ------------------------------------------------------------------------
\* after is before without the records of id: nothing of id is left, every
\* other record is there as it was, and the order is the order before.
RemovedById(before, after, id) ==
  /\ IsSubsequence(after, before)
  /\ \A i \in 1..Len(after) : after[i].id # id
  /\ Len(after) = Len(before) - Cardinality({i \in 1..Len(before) : before[i].id = id})

\* Ids no record of the explored logs has.
AbsentIds == {"", "x9", "uuid-0"}

\* C25: the Borrar button of a row removes the records of its id and leaves
\* the other records as they were and in their order; removing an id the
\* log does not have leaves the log as it is; and removing the record an
\* add has just put in the log gives the log, the balances and the
\* liquidity of before the add.
DeleteRemoves ==
  [][/\ \A id \in idsOf(txs) : deleteTx(id) => RemovedById(txs, txs', id)
     /\ \A id \in AbsentIds : remaining(txs, id) = txs
     /\ (addTx /\ txs' # txs) =>
          LET back == remaining(txs', txs'[1].id)
          IN /\ back = txs
             /\ computeBalances(accounts', back) = summary
             /\ liquidezCents(computeBalances(accounts', back)) = liquidez]_vars

\* Two ids were handed out and the record of the first is gone: what is
\* left is the record of the second.
DeleteRemovesWitness ==
  /\ uuid = 2 /\ reading = <<>>
  /\ Len(txs) = 1 /\ txs[1].id = randomUUID(2)

\* ------------------------------------------------------------------------
\* C28  Imports in flight
\* ------------------------------------------------------------------------
\* old is the end of new: records were put in front, none taken or changed.
IsSuffix(old, new) ==
  Len(new) >= Len(old) /\ SubSeq(new, Len(new) - Len(old) + 1, Len(new)) = old

\* C28: a file that is being read stays in flight, whatever is added,
\* deleted or imported meanwhile, until its read completes; the step that
\* completes it leaves its parsed records followed by the log as it stood
\* at that step, and leaves the other files in flight; and no step but a
\* delete takes a record out of the log.
ImportsInFlight ==
  [][/\ Len(reading') >= Len(reading) => SubSeq(reading', 1, Len(reading)) = reading
     /\ Len(reading') < Len(reading) =>
          \E i \in 1..Len(reading) :
            /\ reading' = SubSeq(reading, 1, i - 1) \o SubSeq(reading, i + 1, Len(reading))
            /\ txs' = parseCSV(reading[i], uuid) \o txs
     /\ (\A id \in idsOf(txs) : ~deleteTx(id)) => IsSuffix(txs, txs')]_vars

\* Two files were read and both reads completed, that of the row x3 before
\* that of the row x1: the rows of both files are in the log.
ImportsInFlightWitness ==
  /\ reading = <<>> /\ uuid = 0
  /\ Len(txs) = 2 /\ txs[1].id = "x1" /\ txs[2].id = "x3"

\* ------------------------------------------------------------------------
\* C29  The source account of a saved Expense
\* ------------------------------------------------------------------------
\* The accounts, in registry order, whose display name contains the account
\* name of the payment method pm.
NamedAfter(pm) ==
  {k \in 1..Len(accounts) :
     \E m \in 1..Len(PAYMENT_METHODS) :
       PAYMENT_METHODS[m].id = pm /\ includes(accounts[k].name, PAYMENT_METHODS[m].accountName)}

\* C29: every Expense in the log saved from the form draws on the first
\* account named after the payment method it carries, when there is such an
\* account; and the form is at rest in every state: run again, the
\* payment-method effect and the category effect would set nothing.
ExpenseSourceFollowsPaymentMethod ==
  /\ \A i \in 1..Len(txs) :
       (txs[i].type = "GASTO" /\ NamedAfter(txs[i].paymentMethod) # {}) =>
         txs[i].accountFromId = accounts[Min(NamedAfter(txs[i].paymentMethod))].id
  /\ paymentMethodEffect(accounts, form) = form
  /\ categoryEffect(categories, form) = form

\* An Expense paid with Nequi was saved with the account Nequi as source,
\* the form having held another source and another payment method.
ExpenseSourceWitness ==
  /\ Len(txs) = 1
  /\ txs[1].type = "GASTO" /\ txs[1].paymentMethod = "NEQUI" /\ txs[1].accountFromId = "nequi"
  /\ NamedAfter("NEQUI") # {}

\* ------------------------------------------------------------------------
\* The reports as a state machine
\* ------------------------------------------------------------------------
\* Most rows imported on top of the log the session starts with.
MaxImported == 2

\* An Expense as addTx saves it.
Expense(id, date, amountCents, accountFromId, categoryId, paymentMethod) ==
  [id |-> id, type |-> "GASTO", date |-> date, amountCents |-> amountCents,
   accountFromId |-> accountFromId, accountToId |-> NULL, categoryId |-> categoryId,
   paymentMethod |-> paymentMethod, note |-> NULLTEXT]

\* A log earlier adds left: Expenses of six months, not in the order of
\* their dates, two of them in one month.
history ==
  << Expense("uuid-7", "2024-01-20", 900, "nequi", "mercado", "NEQUI"),
     Expense("uuid-6", "2023-11-30", 300, "nequi", "mercado", "NEQUI"),
     Expense("uuid-5", "2024-03-15", 600, "visa", "transporte", "VISA"),
     Expense("uuid-4", "2023-10-05", 200, "efectivo", "mercado", "EFECTIVO"),
     Expense("uuid-3", "2024-02-29", 500, "visa", "mascota", "VISA"),
     Expense("uuid-2", "2023-12-31", 400, "nequi", "transporte", "NEQUI"),
     Expense("uuid-1", "2024-01-01", 100, "efectivo", "mercado", "EFECTIVO") >>

\* An Expense saved with the date input cleared.
dateless == Expense("uuid-8", "", 800, "nequi", "mercado", "NEQUI")

\* The logs a session starts with, and the ids handed out for them.
Histories == {<<>>, history, <<dateless>> \o history}

\* The rows imported: Expenses of an older month, of the first days of
\* newer months, with an account and a category no registry has, with no
\* category, with an amount that is no number; an Income and a Transfer.
ReportRows ==
  { <<"r1", ",", "GASTO", ",", "2023-09-10", ",", "1", "0", ",", "nequi", ",", ",", "mercado">>,
    <<"r2", ",", "GASTO", ",", "2024-04-01", ",", "2", "0", ",", "nequi", ",", ",", "mercado">>,
    <<"r3", ",", "GASTO", ",", "2024-03-01", ",", "3", "0", ",", "ghost", ",", ",", "antojos">>,
    <<"r4", ",", "GASTO", ",", "2024-03-02", ",", "4", "0", ",", "visa", ",", ",">>,
    <<"r5", ",", "GASTO", ",", "2024-03-03", ",", "abc", ",", "nequi", ",", ",", "mercado">>,
    <<"r6", ",", "INGRESO", ",", "2024-05-01", ",", "5", "0", ",", ",", "nequi", ",", "trabajos">>,
    <<"r7", ",", "TRANSFERENCIA", ",", "2024-05-02", ",", "6", "0", ",", "nequi", ",", "efectivo", ",">> }

RowIds == {row[1] : row \in ReportRows}

\* The component over a log of earlier sessions; the registry is the seeds'
\* or an earlier run's.
InitReports ==
  /\ accounts \in AppRegistries
  /\ categories = ensureCategories(defaultCategories)
  /\ txs \in Histories
  /\ summary = computeBalances(accounts, txs)
  /\ liquidez = liquidezCents(summary)
  /\ form = formInitial
  /\ alerted = NULL
  /\ uuid = 8
  /\ reading = <<>>
  /\ mounted

\* One file of one row is read at a time.
NextReports ==
  \/ \E row \in ReportRows :
       /\ reading = <<>>
       /\ Cardinality({i \in 1..Len(txs) : txs[i].id \in RowIds}) < MaxImported
       /\ importCSV(join(<<header, row>>, "\n"))
  \/ onload(1)

SpecReports == InitReports /\ [][NextReports]_vars

\* ------------------------------------------------------------------------
\* C30  The month of a date
\* ------------------------------------------------------------------------
\* The offsets from UTC, in minutes, of the devices considered: Bogota,
\* UTC, Madrid.
DeviceOffsets == {-300, 0, 60}

\* The YYYY-MM a date string YYYY-MM-DD starts with.
ownMonth(dateStr) ==
  LET d == dateOf(dateStr) IN digitsOf(d.year) \o <<"-">> \o pad2(d.month)

\* The months the month select offers.
MonthsOffered == {ownMonth(isoDate(ymd[1], ymd[2], ymd[3])) : ymd \in Calendar}

\* C30: on every device the key of a transaction dated YYYY-MM-DD is that
\* YYYY-MM, so the month filter shows the transaction under its own month
\* and under no other.
MonthKeyIsOwnMonth ==
  \A offset \in DeviceOffsets : \A i \in 1..Len(txs) :
    dateOf(txs[i].date).year # NaN =>
      /\ monthKey(txs[i].date, offset) = ownMonth(txs[i].date)
      /\ \A m \in MonthsOffered :
           (\E j \in 1..Len(txsFiltered(txs, m, offset)) : txsFiltered(txs, m, offset)[j] = txs[i])
             <=> m = ownMonth(txs[i].date)

\* What holds: the same on the devices whose clock is not behind UTC.
MonthKeyIsOwnMonthEastOfUTC ==
  \A offset \in {o \in DeviceOffsets : o >= 0} : \A i \in 1..Len(txs) :
    dateOf(txs[i].date).year # NaN =>
      /\ monthKey(txs[i].date, offset) = ownMonth(txs[i].date)
      /\ \A m \in MonthsOffered :
           (\E j \in 1..Len(txsFiltered(txs, m, offset)) : txsFiltered(txs, m, offset)[j] = txs[i])
             <=> m = ownMonth(txs[i].date)

\* ------------------------------------------------------------------------
\* C21  The by-month view
\* ------------------------------------------------------------------------
\* The Expenses of a log that have a date.
DatedExpenses(log) ==
  {i \in 1..Len(log) : log[i].type = "GASTO" /\ dateOf(log[i].date).year # NaN}

\* The year and month of the date of the i-th transaction.
YearMonth(log, i) == <<dateOf(log[i].date).year, dateOf(log[i].date).month>>

\* The months that have Expense data.
ExpenseMonths(log) == {YearMonth(log, i) : i \in DatedExpenses(log)}

\* The month p is after the month q.
After(p, q) == p[1] > q[1] \/ (p[1] = q[1] /\ p[2] > q[2])

\* The six most recent of the months that have Expense data, all of them
\* when there are fewer.
MostRecent(log) ==
  {p \in ExpenseMonths(log) : Cardinality({q \in ExpenseMonths(log) : After(q, p)}) < 6}

\* The sum of the amounts of the transactions of the set of positions S.
RECURSIVE SumAmounts(_, _)
SumAmounts(log, S) ==
  IF S = {} THEN 0
  ELSE LET i == CHOOSE x \in S : TRUE
       IN jsAdd(log[i].amountCents, SumAmounts(log, S \ {i}))

\* The view is the months of MostRecent(log), the earliest first, each
\* under its YYYY-MM with the sum of the Expense amounts of that month.
IsByMonthView(view, log) ==
  /\ Len(view) = Cardinality(MostRecent(log))
  /\ \A k \in 1..Len(view) :
       \E p \in MostRecent(log) :
         /\ Cardinality({q \in MostRecent(log) : After(p, q)}) = k - 1
         /\ view[k].name = digitsOf(p[1]) \o <<"-">> \o pad2(p[2])
         /\ view[k].value = SumAmounts(log, {i \in DatedExpenses(log) : YearMonth(log, i) = p})

\* C21: on every device the by-month view of the whole log is at most six
\* entries: the six most recent months that have Expense data, in ascending
\* order, each with the sum of that month's Expense amounts; Incomes and
\* Transfers add nothing.
ByMonthView ==
  \A offset \in DeviceOffsets : IsByMonthView(gastosPorMes(txs, offset), txs)

\* What holds: the same on the devices whose clock is not behind UTC, for
\* the logs whose Expenses all have a date and an amount that is a number.
ByMonthViewOfDatedAmounts ==
  (\A i \in 1..Len(txs) :
     txs[i].type = "GASTO" => (dateOf(txs[i].date).year # NaN /\ txs[i].amountCents # NaN))
  => \A offset \in {o \in DeviceOffsets : o >= 0} : IsByMonthView(gastosPorMes(txs, offset), txs)

\* A state the statement that holds is about: more than six months of
\* Expenses, an Income and a Transfer among the transactions.
ByMonthViewOfDatedAmountsCase ==
  /\ Cardinality(ExpenseMonths(txs)) > 6
  /\ \A i \in 1..Len(txs) :
       txs[i].type = "GASTO" => (dateOf(txs[i].date).year # NaN /\ txs[i].amountCents # NaN)
  /\ \E i \in 1..Len(txs) : txs[i].type = "INGRESO"

\* ------------------------------------------------------------------------
\* C22  The by-account and by-category views
\* ------------------------------------------------------------------------
\* The Expenses of a log.
Expenses(log) == {i \in 1..Len(log) : log[i].type = "GASTO"}

\* The display name of the first entry of the registry with this id, the
\* placeholder when the id is null or no entry has it.
LabelOf(registry, id, placeholder) ==
  IF \E k \in 1..Len(registry) : registry[k].id = id
  THEN registry[CHOOSE k \in 1..Len(registry) :
                  registry[k].id = id /\ \A j \in 1..(k - 1) : registry[j].id # id].name
  ELSE placeholder

\* The view has one entry for each label an Expense of the log has, with
\* the sum of the amounts of the Expenses of that label, and no other entry.
IsGroupedView(view, log, label(_)) ==
  /\ \A k, j \in 1..Len(view) : view[k].name = view[j].name => k = j
  /\ {view[k].name : k \in 1..Len(view)} = {label(log[i]) : i \in Expenses(log)}
  /\ \A k \in 1..Len(view) :
       view[k].value = SumAmounts(log, {i \in Expenses(log) : label(log[i]) = view[k].name})

\* The totals of the view add up to s.
RECURSIVE SumValuesOf(_)
SumValuesOf(view) ==
  IF view = <<>> THEN 0 ELSE jsAdd(Head(view).value, SumValuesOf(Tail(view)))

\* The months selected in the reports, "Todos los meses" among them.
MonthsSelected == {ALL_MONTHS} \cup MonthsOffered

\* C22: for every month selected, the by-account view and the by-category
\* view of the transactions shown group the Expenses, and only them, by the
\* name of their source account and of their category, under the
\* placeholder when the id is absent or unknown, and the totals of each
\* view add up to the sum of the Expense amounts.
GroupedViews ==
  \A offset \in DeviceOffsets : \A m \in MonthsSelected :
    LET shown == txsFiltered(txs, m, offset)
        byAccount == gastosPorCuenta(shown, accounts)
        byCategory == gastosPorCategoria(shown, categories)
    IN /\ IsGroupedView(byAccount, shown, LAMBDA t : LabelOf(accounts, t.accountFromId, "-"))
       /\ IsGroupedView(byCategory, shown, LAMBDA t : LabelOf(categories, t.categoryId, "Sin categoria"))
       /\ SumValuesOf(byAccount) = SumAmounts(shown, Expenses(shown))
       /\ SumValuesOf(byCategory) = SumAmounts(shown, Expenses(shown))

\* What holds: the same for the logs whose Expense amounts are numbers.
GroupedViewsOfAmounts ==
  (\A i \in Expenses(txs) : txs[i].amountCents # NaN) => GroupedViews

\* ------------------------------------------------------------------------
\* A session over the store (src/src/App.tsx:88-103, 278-292)
\* ------------------------------------------------------------------------
\* Longest log of the session, rows still being read included.
MaxKept == 1

\* Most transactions added in the session.
MaxAdded == 1

\* The log an earlier run stored.
storedLog == <<Expense("s1", "2024-01-01", 100, "efectivo", "mercado", "EFECTIVO")>>

\* What the store holds when the session starts: nothing; the registries
\* and the log of a run of the program; registries of an earlier version
\* (visa stored as a cash account, an account and a category that are no
\* seeds) with a log.
Stores ==
  { [ga_accounts |-> <<>>, ga_categories |-> <<>>, ga_transactions |-> <<>>],
    written(ensureAccounts(defaultAccounts), ensureCategories(defaultCategories), <<>>),
    written(<< [id |-> "visa", name |-> "Card", type |-> ACCOUNT_TYPES.CASH, initialBalanceCents |-> 5000],
               [id |-> "ghost", name |-> "Old account", type |-> ACCOUNT_TYPES.CASH, initialBalanceCents |-> 0] >>,
            << [id |-> "antojos", name |-> "Antojos", kind |-> "GASTO"] >>,
            storedLog) }

\* The three useLocalState initializers and the first render.
InitStore ==
  /\ localStorage \in Stores
  /\ failure \in Failures
  /\ accounts = getItemOr(localStorage, failure, LS_KEYS.ACCOUNTS, defaultAccounts)
  /\ categories = getItemOr(localStorage, failure, LS_KEYS.CATEGORIES, defaultCategories)
  /\ txs = getItemOr(localStorage, failure, LS_KEYS.TXS, <<>>)
  /\ summary = computeBalances(ensureAccounts(accounts), txs)
  /\ liquidez = liquidezCents(summary)
  /\ form = formInitial
  /\ alerted = NULL
  /\ uuid = 0
  /\ reading = <<>>
  /\ phase = "rendered"

\* The store starts or stops failing: the browser's doing, not the
\* program's.
storeTurns(f) ==
  /\ failure # f
  /\ failure' = f
  /\ UNCHANGED <<accounts, txs, summary, liquidez, categories, form, alerted, uuid, reading,
                 localStorage, phase>>

\* The files imported in the session: an Expense with an amount, and one
\* whose amount is not a number.
StoreFiles == {fileText(1), fileText(3)}

\* The effects of the first render, then the handlers.
NextStore ==
  \/ phase = "rendered" /\ migrations
  \/ phase = "mounted" /\ onChange("amount", <<"1", "2", ".", "5">>)
  \/ /\ phase = "mounted"
     /\ toCents(form.amount) > 0 => (Len(txs) + inFlight(reading) < MaxKept /\ uuid < MaxAdded)
     /\ addTx
  \/ \E text \in StoreFiles :
       /\ phase = "mounted"
       /\ reading = <<>>
       /\ Len(txs) + weight(text) <= MaxKept
       /\ importCSV(text)
  \/ phase = "mounted" /\ onload(1)
  \/ \E id \in idsOf(txs) : phase = "mounted" /\ deleteTx(id)
  \/ \E f \in Failures : storeTurns(f)

SpecStore == InitStore /\ [][NextStore]_vars

\* ------------------------------------------------------------------------
\* C23  A failing store is not fatal
\* ------------------------------------------------------------------------
\* C23: a step of the program taken while the store fails does not end
\* with the component unmounted, and what the step was to change in memory
\* is changed: the first effects leave the registry with every seed
\* account, and a changed log is the log the balances shown are computed
\* from.
StoreFailuresSwallowed ==
  [][(failure # "none" /\ failure' = failure) =>
       /\ phase' # "unmounted"
       /\ phase = "rendered" =>
            (phase' = "mounted" /\ idsOf(defaultAccounts) \subseteq idsOf(accounts'))
       /\ txs' # txs => summary' = computeBalances(accounts', txs')]_vars

\* A session of src/src/App.tsx that started over a store it could not
\* read and went on while the store kept failing: it runs on the seeds,
\* a transaction was added and deleted and a file imported, and the store
\* still has the log of the earlier run.
StoreFailuresSwallowedCase ==
  /\ failure # "none"
  /\ phase = "mounted"
  /\ uuid = 1
  /\ Len(txs) = 1 /\ txs[1].id = "x3"
  /\ localStorage.ga_transactions = JSONstringify(storedLog)
  /\ accounts = ensureAccounts(defaultAccounts)

\* ------------------------------------------------------------------------
\* C26  The persisted blobs follow the collections
\* ------------------------------------------------------------------------
\* The collection kept under a key.
Collection(key, a, c, t) ==
  CASE key = LS_KEYS.ACCOUNTS -> a
    [] key = LS_KEYS.CATEGORIES -> c
    [] key = LS_KEYS.TXS -> t

\* The blob of the key holds the collection, every record whole.
Holds(store, key, collection) ==
  store[key] # <<>> /\ JSONparse(store[key]) = collection

\* A step leaves each blob as it was or holding the collection as it is
\* after the step, and a step that changes a collection while the store
\* works leaves the blob holding the changed collection.
Follows(key) ==
  LET before == Collection(key, accounts, categories, txs)
      after == Collection(key, accounts', categories', txs')
  IN /\ localStorage'[key] = localStorage[key] \/ Holds(localStorage', key, after)
     /\ (failure = "none" /\ failure' = "none" /\ after # before) => Holds(localStorage', key, after)

\* C26: every blob is rewritten after every mutation of its collection, so
\* that with a working store the persisted transactions, accounts and
\* categories equal the collections in memory once the step is over, and
\* at every moment a blob holds a whole value its collection had.
PersistedFollowsMemory ==
  [][\A key \in {LS_KEYS.ACCOUNTS, LS_KEYS.CATEGORIES, LS_KEYS.TXS} : Follows(key)]_vars

\* What holds: the same while every amount of the log is a number.
PersistedFollowsAmounts ==
  [][(\A i \in 1..Len(txs') : txs'[i].amountCents # NaN) =>
       \A key \in {LS_KEYS.ACCOUNTS, LS_KEYS.CATEGORIES, LS_KEYS.TXS} : Follows(key)]_vars

\* A blob rewritten after failed writes: the store missed an add and a
\* delete, works again, and holds the log an import just left.
PersistedFollowsAmountsCase ==
  /\ failure = "none"
  /\ uuid = 1
  /\ Len(txs) = 1 /\ txs[1].id = "x1"
  /\ Holds(localStorage, LS_KEYS.TXS, txs)

\* ------------------------------------------------------------------------
\* C24  Who changes the registries
\* ------------------------------------------------------------------------
\* C24: a step that changes the account registry or the category registry
\* is the reconciliation of the first effects; adding, deleting and
\* importing transactions, with the balances computed after them, change
\* neither; and an account that is in the registry before and after a step
\* has the type it had.
RegistriesFramed ==
  [][/\ (accounts' # accounts \/ categories' # categories) =>
          (phase = "rendered" /\ phase' = "mounted")
     /\ (txs' # txs \/ reading' # reading \/ summary' # summary) =>
          (accounts' = accounts /\ categories' = categories)
     /\ \A i \in 1..Len(accounts) : \A j \in 1..Len(accounts') :
          accounts'[j].id = accounts[i].id => accounts'[j].type = accounts[i].type]_vars

\* The registries an earlier version stored, reconciled (visa still the
\* cash account it was stored as, the seeds added), with a log whose stored
\* transaction was deleted and another added.
RegistriesFramedWitness ==
  /\ phase = "mounted"
  /\ Len(accounts) = 9 /\ accounts[1].id = "visa" /\ accounts[1].type = ACCOUNT_TYPES.CASH
  /\ accounts[2].id = "ghost"
  /\ Len(categories) = 12 /\ categories[1].id = "antojos"
  /\ Len(txs) = 1 /\ txs[1].id = randomUUID(1)

====
